---- MODULE Spec2Model ----
(***************************************************************************)
(* A model of know-your-trees-rs: the split search over a columnar         *)
(* dataset (tree/split/vector_datasets.rs), the scoring strategies         *)
(* (tree/loss_fn/mod.rs) and the recursive tree builder and predictor      *)
(* (tree/mod.rs).                                                          *)
(*                                                                         *)
(* f64 values are modelled bit for bit: sign, exponent and mantissa, with  *)
(* the infinities, NaN, the two zeros and the subnormal numbers, and every *)
(* operation rounds to the nearest value, ties to even, as IEEE 754 does.  *)
(***************************************************************************)
EXTENDS Integers, Sequences, FiniteSets, Bags, TLC

\* ------------------------------------------------------------------ bounds
MaxRows == 3
MaxDepth == 2
MaxPredictRows == 2
MaxWideRows == 2
MaxWidePredictRows == 1
MaxClassRows == 8

\* ------------------------------------------------------------------ f64
\* Natural numbers of any size, as sequences of digits in base Limb, the least
\* significant digit first and the most significant one not 0 (zero is <<>>).
Limb == 2 ^ 14

Abs(x) == IF x < 0 THEN -x ELSE x
Max(a, b) == IF a < b THEN b ELSE a
Min(a, b) == IF a < b THEN a ELSE b

RECURSIVE BitLen(_)
BitLen(x) == IF x = 0 THEN 0 ELSE 1 + BitLen(x \div 2)

RECURSIVE BTrim(_)
BTrim(a) ==
    IF a # <<>> /\ a[Len(a)] = 0 THEN BTrim(SubSeq(a, 1, Len(a) - 1)) ELSE a

RECURSIVE BFromInt(_)
BFromInt(x) == IF x = 0 THEN <<>> ELSE <<x % Limb>> \o BFromInt(x \div Limb)

BDigit(a, i) == IF i <= Len(a) THEN a[i] ELSE 0

RECURSIVE BAddFrom(_, _, _, _)
BAddFrom(a, b, i, carry) ==
    IF i > Len(a) /\ i > Len(b)
    THEN (IF carry = 0 THEN <<>> ELSE <<carry>>)
    ELSE LET s == BDigit(a, i) + BDigit(b, i) + carry
         IN  <<s % Limb>> \o BAddFrom(a, b, i + 1, s \div Limb)

BAdd(a, b) == BAddFrom(a, b, 1, 0)

\* a - b for a >= b
RECURSIVE BSubFrom(_, _, _, _)
BSubFrom(a, b, i, borrow) ==
    IF i > Len(a) THEN <<>>
    ELSE LET s == a[i] - BDigit(b, i) - borrow
         IN  IF s < 0
             THEN <<s + Limb>> \o BSubFrom(a, b, i + 1, 1)
             ELSE <<s>> \o BSubFrom(a, b, i + 1, 0)

BSub(a, b) == BTrim(BSubFrom(a, b, 1, 0))

\* -1, 0 or 1 as a is less than, equal to or greater than b
RECURSIVE BCmpFrom(_, _, _)
BCmpFrom(a, b, i) ==
    IF i = 0 THEN 0
    ELSE IF a[i] < b[i] THEN -1
    ELSE IF a[i] > b[i] THEN 1
    ELSE BCmpFrom(a, b, i - 1)

BCmp(a, b) ==
    IF Len(a) < Len(b) THEN -1
    ELSE IF Len(a) > Len(b) THEN 1
    ELSE BCmpFrom(a, b, Len(a))

\* a * k for 0 <= k < Limb
RECURSIVE BMulSmallFrom(_, _, _, _)
BMulSmallFrom(a, k, i, carry) ==
    IF i > Len(a)
    THEN (IF carry = 0 THEN <<>> ELSE <<carry>>)
    ELSE LET s == a[i] * k + carry
         IN  <<s % Limb>> \o BMulSmallFrom(a, k, i + 1, s \div Limb)

BMulSmall(a, k) == IF k = 0 THEN <<>> ELSE BMulSmallFrom(a, k, 1, 0)

BShiftLimbs(a, n) == IF a = <<>> THEN <<>> ELSE [i \in 1..n |-> 0] \o a

RECURSIVE BMulFrom(_, _, _)
BMulFrom(a, b, i) ==
    IF i > Len(b) THEN <<>>
    ELSE BAdd(BShiftLimbs(BMulSmall(a, b[i]), i - 1), BMulFrom(a, b, i + 1))

BMul(a, b) == BMulFrom(a, b, 1)

\* a * 2^n
BShl(a, n) == BShiftLimbs(BMulSmall(a, 2 ^ (n % 14)), n \div 14)

\* quotient and remainder of a by k, for 0 < k < 8 * Limb
RECURSIVE BDivSmallFrom(_, _, _, _)
BDivSmallFrom(a, k, i, r) ==
    IF i = 0 THEN [q |-> <<>>, r |-> r]
    ELSE LET cur == r * Limb + a[i]
             rest == BDivSmallFrom(a, k, i - 1, cur % k)
         IN  [q |-> rest.q \o <<cur \div k>>, r |-> rest.r]

BDivSmall(a, k) ==
    LET d == BDivSmallFrom(a, k, Len(a), 0)
    IN  [q |-> BTrim(d.q), r |-> BFromInt(d.r)]

\* floor(a / 2^n)
BShr(a, n) ==
    IF n \div 14 >= Len(a) THEN <<>>
    ELSE BDivSmall(SubSeq(a, n \div 14 + 1, Len(a)), 2 ^ (n % 14)).q

\* bit i of a, the least significant one being bit 0
BBit(a, i) ==
    IF i < 0 \/ i \div 14 >= Len(a) THEN 0
    ELSE (a[i \div 14 + 1] \div (2 ^ (i % 14))) % 2

\* a has a bit set below bit n
BLowBits(a, n) == BShl(BShr(a, n), n) # a

BBitLen(a) == IF a = <<>> THEN 0 ELSE 14 * (Len(a) - 1) + BitLen(a[Len(a)])

\* the number of zero bits below the lowest set bit of a # 0
RECURSIVE TrailingZeros(_)
TrailingZeros(x) == IF x % 2 = 1 THEN 0 ELSE 1 + TrailingZeros(x \div 2)

RECURSIVE BTz(_, _)
BTz(a, i) == IF a[i] = 0 THEN 14 + BTz(a, i + 1) ELSE TrailingZeros(a[i])

\* One digit of the long division by d, whose highest digit is Limb / 2 or more:
\* the quotient of cur < d * Limb by d.  The two highest digits of cur divided by
\* the highest digit of d give the digit or up to 2 more.
BDivDigit(cur, d) ==
    LET n == Len(d)
        guess == Min((BDigit(cur, n + 1) * Limb + BDigit(cur, n)) \div d[n], Limb - 1)
    IN  IF BCmp(BMulSmall(d, guess), cur) <= 0 THEN guess
        ELSE IF BCmp(BMulSmall(d, guess - 1), cur) <= 0 THEN guess - 1
        ELSE guess - 2

\* The digits of a from the i-th down, divided by d, with the quotient q and the
\* remainder r of the digits above them.
RECURSIVE BDivModFrom(_, _, _, _, _)
BDivModFrom(a, d, i, q, r) ==
    IF i = 0 THEN [q |-> q, r |-> r]
    ELSE LET cur == BTrim(<<a[i]>> \o r)
             digit == BDivDigit(cur, d)
             rest == BSub(cur, BMulSmall(d, digit))
         IN  IF digit = 0 /\ q = <<>>
             THEN BDivModFrom(a, d, i - 1, <<>>, rest)
             ELSE BDivModFrom(a, d, i - 1, <<digit>> \o q, rest)

\* quotient and remainder of a by d # 0; a long divisor and a are first scaled by
\* the power of 2 that makes the highest digit of the divisor Limb / 2 or more.
BDivMod(a, d) ==
    IF Len(d) = 1 THEN BDivSmall(a, d[1])
    ELSE IF Len(d) = 2 /\ d[2] < 8 THEN BDivSmall(a, d[2] * Limb + d[1])
    ELSE LET scale == 14 - BitLen(d[Len(d)])
             x == BDivModFrom(BShl(a, scale), BShl(d, scale), Len(BShl(a, scale)), <<>>, <<>>)
         IN  [q |-> x.q, r |-> BShr(x.r, scale)]

\* An f64 value: NaN, an infinity, or the finite (-1)^s * m * 2^e, where m is odd
\* (or 0, with e = 0), has at most MantissaDigits bits, and m * 2^e is a multiple
\* of 2^MinExp below 2^MaxExp.
MantissaDigits == 53
MinExp == -1074
MaxExp == 1024

NaN == [k |-> "nan", s |-> 0, e |-> 0, m |-> <<>>]
Infinity(s) == [k |-> "inf", s |-> s, e |-> 0, m |-> <<>>]
Zero(s) == [k |-> "fin", s |-> s, e |-> 0, m |-> <<>>]

is_nan(a) == a.k = "nan"
is_finite(a) == a.k = "fin"
is_zero(a) == a.k = "fin" /\ a.m = <<>>

\* The operations that round are the cases of one recursive operator, f64_op,
\* defined with the Score dispatch further down; the operators below name its
\* cases.
RECURSIVE f64_op(_, _)

\* The f64 of sign s and magnitude m * 2^e, when this is an f64 or is 2^MaxExp or more.
Finite(s, m, e) == f64_op("Finite", <<s, m, e>>)

\* Rounding to nearest, ties to even: the f64 nearest to the magnitude m * 2^e
\* (plus a positive amount below 2^e when sticky), with sign s.
Round(s, m, e, sticky) == f64_op("Round", <<s, m, e, sticky>>)

\* The f64 of an integer: every integer of the model is below 2^MantissaDigits.
F(i) ==
    IF i = 0 THEN Zero(0)
    ELSE [k |-> "fin", s |-> IF i < 0 THEN 1 ELSE 0, e |-> TrailingZeros(Abs(i)),
          m |-> BFromInt(Abs(i) \div 2 ^ TrailingZeros(Abs(i)))]

\* -a
FNeg(a) == IF is_nan(a) THEN a ELSE [a EXCEPT !.s = 1 - a.s]

\* a + b
FAdd(a, b) == f64_op("FAdd", <<a, b>>)

\* a - b
FSub(a, b) == FAdd(a, FNeg(b))

\* a * b
FMul(a, b) == f64_op("FMul", <<a, b>>)

\* a / b
FDiv(a, b) == f64_op("FDiv", <<a, b>>)

\* The f64 of the quotient num/den of two integers: num as f64 / den as f64.
F64(num, den) == FDiv(F(num), F(den))

\* a.powi(2)
powi2(a) == FMul(a, a)

\* f64::partial_cmp: "Less", "Equal", "Greater", or "None" when either side is NaN.
\* Two values of the same sign are ordered by their magnitudes, -1, 0 or 1.
partial_cmp(a, b) ==
    LET magnitude_cmp(x, y) ==
            IF x.k = "inf" \/ y.k = "inf"
            THEN (IF x.k = y.k THEN 0 ELSE IF x.k = "inf" THEN 1 ELSE -1)
            ELSE IF is_zero(x) \/ is_zero(y)
            THEN (IF is_zero(x) /\ is_zero(y) THEN 0 ELSE IF is_zero(x) THEN -1 ELSE 1)
            ELSE LET tx == x.e + BBitLen(x.m)
                     ty == y.e + BBitLen(y.m)
                     lo == IF x.e < y.e THEN x.e ELSE y.e
                 IN  IF tx < ty THEN -1
                     ELSE IF tx > ty THEN 1
                     ELSE BCmp(BShl(x.m, x.e - lo), BShl(y.m, y.e - lo))
    IN  IF is_nan(a) \/ is_nan(b) THEN "None"
        ELSE LET c == IF is_zero(a) /\ is_zero(b) THEN 0
                      ELSE IF a.s # b.s THEN (IF a.s = 1 THEN -1 ELSE 1)
                      ELSE magnitude_cmp(IF a.s = 0 THEN a ELSE b,
                                         IF a.s = 0 THEN b ELSE a)
             IN  IF c < 0 THEN "Less" ELSE IF c = 0 THEN "Equal" ELSE "Greater"

FLt(a, b) == partial_cmp(a, b) = "Less"
FGe(a, b) == partial_cmp(a, b) \in {"Equal", "Greater"}
FEq(a, b) == partial_cmp(a, b) = "Equal"
FNe(a, b) == ~FEq(a, b)

\* ------------------------------------------------------------------ Option
None == <<>>
Some(x) == <<x>>
is_some(o) == o # <<>>
unwrap(o) == o[1]

\* ------------------------------------------------------------------ split_values.rs
Left == "Left"
Right == "Right"
NullDirection == {Left, Right}

SplitScore(score, null_direction) == [score |-> score, null_direction |-> null_direction]

SplitInfo(name, value, score) == [name |-> name, value |-> value, score |-> score]

\* PartialOrd for SplitScore, and for SplitInfo through its score.
SplitScore_partial_cmp(a, b) == partial_cmp(a.score, b.score)
SplitInfo_partial_cmp(a, b) == SplitScore_partial_cmp(a.score, b.score)

\* ------------------------------------------------------------------ Feature<T> for Vec<T>
\* One ternary entry of the mask: the value against the threshold.
mask_entry(v, split) ==
    LET c == partial_cmp(v, split)
    IN  IF c = "Less" THEN Some(TRUE)
        ELSE IF c \in {"Equal", "Greater"} THEN Some(FALSE)
        ELSE None

mask(values, split) == [i \in 1..Len(values) |-> mask_entry(values[i], split)]

find_splits(values) == values

\* ------------------------------------------------------------------ Splittable
\* Mutant of should_go_left: a missing entry goes right whatever the direction.
should_go_left_ignores_direction(m, null_direction) ==
    IF is_some(m) THEN unwrap(m) ELSE FALSE

should_go_left(m, null_direction) ==
    IF is_some(m) THEN unwrap(m) ELSE null_direction = Left

RECURSIVE Vec_split_from(_, _, _, _)
Vec_split_from(values, msk, null_direction, i) ==
    IF i > Min(Len(values), Len(msk)) THEN [left |-> <<>>, right |-> <<>>]
    ELSE LET rest == Vec_split_from(values, msk, null_direction, i + 1)
         IN  IF should_go_left(msk[i], null_direction)
             THEN [left |-> <<values[i]>> \o rest.left, right |-> rest.right]
             ELSE [left |-> rest.left, right |-> <<values[i]>> \o rest.right]

\* Mutant of Vec_split: the rows whose mask entry is missing land in neither half.
Vec_split_drops_null(values, msk, null_direction) ==
    LET n == Min(Len(values), Len(msk))
        kept == SelectSeq([i \in 1..n |-> <<values[i], msk[i]>>],
                          LAMBDA p : is_some(p[2]))
    IN  Vec_split_from([i \in 1..Len(kept) |-> kept[i][1]],
                       [i \in 1..Len(kept) |-> kept[i][2]], null_direction, 1)

\* Splittable::split for Vec<T>: (left_values, right_values), rows kept in order.
Vec_split(values, msk, null_direction) == Vec_split_from(values, msk, null_direction, 1)

\* Splittable::split for HashMap<String, Vec<F>>: every column split by the same mask.
\* The capacity of the halves is the map's own len(), its number of columns:
\* without any column the halves are two maps without columns.
HashMap_split(df, msk, null_direction) ==
    [left  |-> [c \in DOMAIN df |-> Vec_split(df[c], msk, null_direction).left],
     right |-> [c \in DOMAIN df |-> Vec_split(df[c], msk, null_direction).right]]

\* ------------------------------------------------------------------ DataSet rows
SetMax(S) == CHOOSE x \in S : \A y \in S : y <= x

EmptyDF == [kind |-> "EmptyDF"]
IllFormedColumn(name, idx) == [kind |-> "IllFormedColumn", name |-> name, idx |-> idx]

\* DataSet::num_rows: the longest column, or EmptyDF without columns.
num_rows(df) ==
    IF DOMAIN df = {} THEN [ok |-> FALSE, err |-> EmptyDF]
    ELSE [ok |-> TRUE, val |-> SetMax({Len(df[c]) : c \in DOMAIN df})]

\* The orders in which a HashMap may iterate over the given column names: the
\* order is not specified, and is the same for every row of one rows() call.
RECURSIVE iter_orders(_)
iter_orders(names) ==
    IF names = {} THEN {<<>>}
    ELSE UNION {{<<c>> \o rest : rest \in iter_orders(names \ {c})} : c \in names}

\* One item of DataSet::rows: the (name, Some(value)) pairs of row idx (counted
\* from 0), or IllFormedColumn for the first column, in the map's iteration
\* order, that is too short.
row_at(df, order, idx) ==
    LET short == {k \in 1..Len(order) : idx >= Len(df[order[k]])}
    IN  IF short # {}
        THEN [ok |-> FALSE,
              err |-> IllFormedColumn(order[CHOOSE k \in short : \A j \in short : k <= j],
                                      idx)]
        ELSE [ok |-> TRUE, val |-> [c \in DOMAIN df |-> Some(df[c][idx + 1])]]

\* DataSet::rows when the map iterates its columns in the given order.
rows(df, order) ==
    LET n == num_rows(df)
    IN  IF ~n.ok THEN n
        ELSE [ok |-> TRUE, val |-> [k \in 1..n.val |-> row_at(df, order, k - 1)]]

\* ------------------------------------------------------------------ loss_fn: Gini
\* The rows of the zip of target and mask.
zip_len(target, msk) == Min(Len(target), Len(msk))

\* Number of zipped rows whose mask entry is m and whose label is val.
count_of(target, msk, m, val) ==
    Cardinality({i \in 1..zip_len(target, msk) : msk[i] = m /\ target[i] = val})

\* The HashMap<bool, usize> of label counts of the rows whose mask entry is m
\* (a label without entry counts 0).
counts_of(target, msk, m) == [val \in BOOLEAN |-> count_of(target, msk, m, val)]

\* The f64 total of the rows whose mask entry is m.
total_of(target, msk, m) ==
    F(Cardinality({i \in 1..zip_len(target, msk) : msk[i] = m}))

\* Gini::gini.  The fold runs over the entries the map holds: a label that counted
\* no row has no entry and adds nothing to the sum.
gini(counts, total) ==
    IF FEq(total, F(0)) THEN F(0)
    ELSE LET square(val) ==
                 IF counts[val] = 0 THEN F(0)
                 ELSE LET proportion == FDiv(F(counts[val]), total)
                      IN  FMul(proportion, proportion)
             sum_of_squares == FAdd(FAdd(F(0), square(TRUE)), square(FALSE))
         IN  FSub(F(1), sum_of_squares)

with_nulls(counts, null_counts) == [val \in BOOLEAN |-> counts[val] + null_counts[val]]

\* Gini::impurity.  The two weighted impurities are compared with
\* partial_cmp(..).expect("Cannot Compare"): when they are not comparable the call
\* panics.
impurity(left_counts, right_counts, null_counts, left_total, right_total, null_total) ==
    LET left_gini_with_nulls ==
            gini(with_nulls(left_counts, null_counts), FAdd(left_total, null_total))
        right_gini_with_nulls ==
            gini(with_nulls(right_counts, null_counts), FAdd(right_total, null_total))
        total == FAdd(FAdd(left_total, right_total), null_total)
        weighted_left_gini ==
            FAdd(FMul(FDiv(FAdd(left_total, null_total), total), left_gini_with_nulls),
                 FMul(FDiv(right_total, total), gini(right_counts, right_total)))
        weighted_right_gini ==
            FAdd(FMul(FDiv(left_total, total), gini(left_counts, left_total)),
                 FMul(FDiv(FAdd(right_total, null_total), total), right_gini_with_nulls))
        c == partial_cmp(weighted_left_gini, weighted_right_gini)
    IN  IF c = "None" THEN [panic |-> "Cannot Compare"]
        ELSE IF c \in {"Less", "Equal"}
        THEN SplitScore(weighted_left_gini, Left)
        ELSE SplitScore(weighted_right_gini, Right)

\* Mutant of Gini_split_score: a mask of missing rows only is scored.
Gini_split_score_scores_all_missing(target, msk) ==
    LET left_total == total_of(target, msk, Some(TRUE))
        right_total == total_of(target, msk, Some(FALSE))
        null_total == total_of(target, msk, None)
        total_len == FAdd(FAdd(left_total, right_total), null_total)
    IN  IF FEq(total_len, left_total) \/ FEq(total_len, right_total)
        THEN None
        ELSE Some(impurity(counts_of(target, msk, Some(TRUE)),
                           counts_of(target, msk, Some(FALSE)),
                           counts_of(target, msk, None),
                           left_total, right_total, null_total))

\* Score<bool> for Gini: split_score
Gini_split_score(target, msk) ==
    LET left_total == total_of(target, msk, Some(TRUE))
        right_total == total_of(target, msk, Some(FALSE))
        null_total == total_of(target, msk, None)
        total_len == FAdd(FAdd(left_total, right_total), null_total)
    IN  IF FEq(total_len, left_total) \/ FEq(total_len, right_total)
           \/ FEq(total_len, null_total)
        THEN None
        ELSE Some(impurity(counts_of(target, msk, Some(TRUE)),
                           counts_of(target, msk, Some(FALSE)),
                           counts_of(target, msk, None),
                           left_total, right_total, null_total))

\* Score<bool> for Gini: pred
Gini_pred(target) ==
    LET true_cnt == F(Cardinality({i \in 1..Len(target) : target[i]}))
        len == F(Len(target))
    IN  FDiv(true_cnt, len)

\* ------------------------------------------------------------------ loss_fn: Logit
\* Logit::grad_and_hes
grad_and_hes(self, target_label) ==
    LET target_val == IF target_label THEN F(1) ELSE F(0)
    IN  [grad |-> FSub(self.pred, target_val),
         hess |-> FMul(self.pred, FSub(F(1), self.pred))]

\* The fold of (grad, hess) over the zipped rows 1..i whose mask entry is m.
RECURSIVE gh_sum_from(_, _, _, _, _)
gh_sum_from(self, target, msk, m, i) ==
    IF i < 1 THEN [grad |-> F(0), hess |-> F(0)]
    ELSE LET acc == gh_sum_from(self, target, msk, m, i - 1)
             gh == grad_and_hes(self, target[i])
         IN  IF msk[i] = m
             THEN [grad |-> FAdd(acc.grad, gh.grad), hess |-> FAdd(acc.hess, gh.hess)]
             ELSE acc

gh_sum(self, target, msk, m) == gh_sum_from(self, target, msk, m, zip_len(target, msk))

\* Score<bool> for Logit: split_score
Logit_split_score(self, target, msk) ==
    LET l == gh_sum(self, target, msk, Some(TRUE))
        r == gh_sum(self, target, msk, Some(FALSE))
        n == gh_sum(self, target, msk, None)
        score_on_left ==
            FAdd(FDiv(powi2(FAdd(l.grad, n.grad)), FAdd(l.hess, n.hess)),
                 FDiv(powi2(r.grad), r.hess))
        score_on_right ==
            FAdd(FDiv(powi2(FAdd(r.grad, n.grad)), FAdd(r.hess, n.hess)),
                 FDiv(powi2(l.grad), l.hess))
    IN  IF FGe(score_on_left, score_on_right)
        THEN Some(SplitScore(FNeg(score_on_left), Left))
        ELSE IF is_finite(score_on_right)
        THEN Some(SplitScore(FNeg(score_on_right), Right))
        ELSE None

\* Score<bool> for Logit: pred
Logit_pred(self, target) ==
    LET all == [i \in 1..Len(target) |-> None]
        gh == gh_sum(self, target, all, None)
    IN  FDiv(FNeg(gh.grad), gh.hess)

\* ------------------------------------------------------------------ Score<bool>
\* The strategies handed to fit: the two variants of ScoringFunction, and a
\* caller-supplied implementation of the Score trait whose score is read from a
\* table indexed by the number of rows the mask sends left.
Gini == [kind |-> "Gini"]
\* Logit::new panics unless 0 < pred < 1.
Logit(p) ==
    IF FLt(F(0), p) /\ FLt(p, F(1))
    THEN [kind |-> "Logit", pred |-> p]
    ELSE [panic |-> "Initial prediction for Logit must be gt than 0 a lt than 1"]
UserScore(table) == [kind |-> "User", table |-> table]

User_split_score(self, target, msk) ==
    LET k == Cardinality({i \in 1..zip_len(target, msk) : msk[i] = Some(TRUE)})
    IN  IF k + 1 <= Len(self.table) /\ is_some(self.table[k + 1])
        THEN Some(SplitScore(unwrap(self.table[k + 1]), Left))
        ELSE None

User_pred(self, target) == F(Len(target))

\* The f64 operations that round, and the dispatch of ScoringFunction on its
\* variant: split_score and pred call the implementation of the strategy held.
f64_op(op, x) ==
    CASE op = "Finite" ->
            LET s == x[1]
                m == x[2]
                e == x[3]
            IN  IF m = <<>> THEN Zero(s)
                ELSE IF e + BBitLen(m) > MaxExp THEN Infinity(s)
                ELSE LET tz == BTz(m, 1)
                     IN  [k |-> "fin", s |-> s, e |-> e + tz, m |-> BShr(m, tz)]
      [] op = "Round" ->
            LET s == x[1]
                m == x[2]
                e == x[3]
                sticky == x[4]
                t == Max(e + BBitLen(m) - MantissaDigits, MinExp)
            IN  IF t <= e THEN Finite(s, m, e)
                ELSE LET q == BShr(m, t - e)
                         half == BBit(m, t - e - 1) = 1
                         rest == sticky \/ BLowBits(m, t - e - 1)
                         odd == BBit(q, 0) = 1
                     IN  Finite(s, IF half /\ (rest \/ odd) THEN BAdd(q, <<1>>) ELSE q, t)
      [] op = "FAdd" ->
            LET a == x[1]
                b == x[2]
            IN  IF is_nan(a) \/ is_nan(b) THEN NaN
                ELSE IF a.k = "inf" /\ b.k = "inf" THEN (IF a.s = b.s THEN a ELSE NaN)
                ELSE IF a.k = "inf" THEN a
                ELSE IF b.k = "inf" THEN b
                ELSE IF is_zero(a) /\ is_zero(b)
                THEN Zero(IF a.s = 1 /\ b.s = 1 THEN 1 ELSE 0)
                ELSE IF is_zero(a) THEN b
                ELSE IF is_zero(b) THEN a
                ELSE LET ta == a.e + BBitLen(a.m)
                         tb == b.e + BBitLen(b.m)
                     IN  IF ta - tb > MantissaDigits + 3 THEN a
                         ELSE IF tb - ta > MantissaDigits + 3 THEN b
                         ELSE LET lo == IF a.e < b.e THEN a.e ELSE b.e
                                  u == BShl(a.m, a.e - lo)
                                  v == BShl(b.m, b.e - lo)
                                  c == BCmp(u, v)
                              IN  IF a.s = b.s THEN Round(a.s, BAdd(u, v), lo, FALSE)
                                  ELSE IF c = 0 THEN Zero(0)
                                  ELSE Round(IF c > 0 THEN a.s ELSE b.s,
                                             IF c > 0 THEN BSub(u, v) ELSE BSub(v, u),
                                             lo, FALSE)
      [] op = "FMul" ->
            LET a == x[1]
                b == x[2]
                s == (a.s + b.s) % 2
            IN  IF is_nan(a) \/ is_nan(b) THEN NaN
                ELSE IF a.k = "inf" \/ b.k = "inf"
                THEN (IF is_zero(a) \/ is_zero(b) THEN NaN ELSE Infinity(s))
                ELSE IF is_zero(a) \/ is_zero(b) THEN Zero(s)
                ELSE Round(s, BMul(a.m, b.m), a.e + b.e, FALSE)
      [] op = "FDiv" ->
            LET a == x[1]
                b == x[2]
                s == (a.s + b.s) % 2
            IN  IF is_nan(a) \/ is_nan(b) THEN NaN
                ELSE IF a.k = "inf" THEN (IF b.k = "inf" THEN NaN ELSE Infinity(s))
                ELSE IF b.k = "inf" THEN Zero(s)
                ELSE IF is_zero(b) THEN (IF is_zero(a) THEN NaN ELSE Infinity(s))
                ELSE IF is_zero(a) THEN Zero(s)
                ELSE LET n == Max(0, MantissaDigits + 2 + BBitLen(b.m) - BBitLen(a.m))
                         d == BDivMod(BShl(a.m, n), b.m)
                     IN  Round(s, d.q, a.e - b.e - n, d.r # <<>>)
      [] op = "split_score" ->
            LET self == x[1]
                target == x[2]
                msk == x[3]
            IN  IF self.kind = "Gini" THEN Gini_split_score(target, msk)
                ELSE IF self.kind = "Logit" THEN Logit_split_score(self, target, msk)
                ELSE User_split_score(self, target, msk)
      [] op = "pred" ->
            LET self == x[1]
                target == x[2]
            IN  IF self.kind = "Gini" THEN Gini_pred(target)
                ELSE IF self.kind = "Logit" THEN Logit_pred(self, target)
                ELSE User_pred(self, target)

\* Score::split_score, dispatched on the strategy.
split_score(self, target, msk) == f64_op("split_score", <<self, target, msk>>)

\* Mutant of pred: every built-in strategy answers with the fraction of true labels.
pred_fraction_only(self, target) ==
    IF self.kind \in {"Gini", "Logit"} THEN Gini_pred(target)
    ELSE User_pred(self, target)

\* Score::pred, dispatched on the strategy.
pred(self, target) == f64_op("pred", <<self, target>>)

\* ------------------------------------------------------------------ find_best_split
Ok(v) == [ok |-> TRUE, val |-> v]
Err(e) == [ok |-> FALSE, err |-> e]

NoSplitRequired == [kind |-> "NoSplitRequired"]
ScoreNotComparable(s1, s2) == [kind |-> "ScoreNotComparable", pair |-> <<s1, s2>>]
\* BestSplitNotFound::Score(e): the error a candidate without a viable score maps to.
ScoreErr == [kind |-> "Score", error |-> "InvalidSplit"]

\* The closure min_sp: the better of two candidates, the first one on a tie.
min_sp(s1, s2) ==
    LET c == SplitInfo_partial_cmp(s1, s2)
    IN  IF c \in {"Less", "Equal"} THEN Ok(s1)
        ELSE IF c = "Greater" THEN Ok(s2)
        ELSE Err(ScoreNotComparable(s1, s2))

\* The identity of the reduction.
identity == Err(NoSplitRequired)

\* Mutant of reduce_op: of two errors the right one is kept.
reduce_op_keeps_right_error(acc, el) ==
    IF acc.ok /\ el.ok THEN min_sp(acc.val, el.val)
    ELSE IF acc.ok THEN Ok(acc.val)
    ELSE IF el.ok THEN Ok(el.val)
    ELSE Err(el.err)

\* The reduction closure |acc, el|.
reduce_op(acc, el) ==
    IF acc.ok /\ el.ok THEN min_sp(acc.val, el.val)
    ELSE IF acc.ok THEN Ok(acc.val)
    ELSE IF el.ok THEN Ok(el.val)
    ELSE Err(acc.err)

\* The map closure: the candidate of one threshold of one column.
map_item(name, values, split_val, target, score_function) ==
    LET score == split_score(score_function, target, mask(values, split_val))
    IN  IF is_some(score)
        THEN Ok(SplitInfo(name, split_val, unwrap(score)))
        ELSE Err(ScoreErr)

\* A partial result of the fork-join reduction: the columns it covers and its value.
Part(cols, res) == [cols |-> cols, res |-> res]

\* The partial results a column starts with: one folder per threshold, each started
\* from the identity, and one folder that found the bridged iterator exhausted.
RECURSIVE column_parts(_, _, _, _, _)
column_parts(name, values, target, score_function, i) ==
    IF i = 0 THEN SetToBag({Part({name}, identity)})
    ELSE SetToBag({Part({name},
                        reduce_op(identity,
                                  map_item(name, values, find_splits(values)[i],
                                           target, score_function)))})
         (+) column_parts(name, values, target, score_function, i - 1)

RECURSIVE df_parts(_, _, _, _)
df_parts(df, names, target, score_function) ==
    IF names = {} THEN EmptyBag
    ELSE LET c == CHOOSE c \in names : TRUE
         IN  column_parts(c, df[c], target, score_function, Len(df[c]))
             (+) df_parts(df, names \ {c}, target, score_function)

\* A partial result is complete when it is the only one left of its columns.
complete(pool, a) ==
    \A b \in BagToSet(pool) : b # a => b.cols \cap a.cols = {}

\* Two partial results the reducer may join next: two of the same column
\* (par_bridge joins its folders in any grouping), or the finished results of
\* different columns (the map's iteration order is arbitrary).
joinable(pool, a, b) ==
    /\ BagIn(a, pool) /\ BagIn(b, pool)
    /\ (a = b => CopiesIn(a, pool) >= 2)
    /\ \/ a.cols = b.cols /\ Cardinality(a.cols) = 1
       \/ a.cols \cap b.cols = {} /\ CopiesIn(a, pool) = 1 /\ CopiesIn(b, pool) = 1
          /\ complete(pool, a) /\ complete(pool, b)

join(pool, a, b) ==
    ((pool (-) SetToBag({a})) (-) SetToBag({b}))
        (+) SetToBag({Part(a.cols \cup b.cols, reduce_op(a.res, b.res))})

\* The reduction is over when at most one partial result is left; without any
\* (no column) the result is the identity.
reduced(pool) == BagCardinality(pool) <= 1

reduce_result(pool) ==
    IF pool = EmptyBag THEN identity
    ELSE (CHOOSE a \in BagToSet(pool) : TRUE).res

\* ------------------------------------------------------------------ Tree
Leaf(p) == [split_info |-> None, left |-> None, right |-> None, prediction |-> Some(p)]

\* Mutant of Internal: the node keeps a prediction beside its split.
Internal_with_prediction(split_info, l, r) ==
    [split_info |-> Some(split_info), left |-> Some(l), right |-> Some(r),
     prediction |-> l.prediction]

Internal(split_info, l, r) ==
    [split_info |-> Some(split_info), left |-> Some(l), right |-> Some(r),
     prediction |-> None]

\* Mutant of build_leaf: the prediction leaves out the first row of the target.
build_leaf_skips_row(target, split_function) ==
    Leaf(pred(split_function, IF target = <<>> THEN target ELSE Tail(target)))

\* Tree::build_leaf
build_leaf(target, split_function) == Leaf(pred(split_function, target))

\* Mutant of add_or_stop: an internal child is kept whatever its score.
add_or_stop_keeps_internal(split_info, node, target, score_fn) ==
    IF is_some(node.prediction) THEN node
    ELSE IF is_some(node.split_info) THEN node
    ELSE build_leaf(target, score_fn)

\* Tree::add_or_stop
add_or_stop(split_info, node, target, score_fn) ==
    IF is_some(node.prediction) THEN node
    ELSE IF is_some(node.split_info)
    THEN IF FNe(unwrap(node.split_info).score.score, split_info.score.score)
         THEN build_leaf(target, score_fn)
         ELSE node
    ELSE build_leaf(target, score_fn)

\* The mask build_tree_recursive recomputes from rows() for the chosen split: one
\* entry per row; a row in error, or without the feature, yields an outer Err that
\* flatten() drops.
RECURSIVE row_mask_from(_, _, _)
row_mask_from(rws, split_info, i) ==
    IF i > Len(rws) THEN <<>>
    ELSE LET row == rws[i]
             rest == row_mask_from(rws, split_info, i + 1)
         IN  IF ~row.ok \/ split_info.name \notin DOMAIN row.val THEN rest
             ELSE LET val == row.val[split_info.name]
                  IN  IF is_some(val)
                      THEN <<Some(FLt(unwrap(val), split_info.value))>> \o rest
                      ELSE <<None>> \o rest

\* The column named in an item in error depends on the map's iteration order, but
\* flatten() drops these items whole, so the mask is the same for every order.
row_mask(df, split_info) ==
    LET r == rows(df, CHOOSE order \in iter_orders(DOMAIN df) : TRUE)
    IN  IF ~r.ok THEN Err([kind |-> "DataSetRowsError", error |-> r.err])
        ELSE Ok(row_mask_from(r.val, split_info, 1))

\* Mutant of child_depth: the depth is decremented whatever the score.
child_depth_decrements(split_info, max_depth) == max_depth - 1

\* Mutant of child_depth: the children get the depth of their parent.
child_depth_keeps_depth(split_info, max_depth) ==
    IF FEq(split_info.score.score, F(0)) THEN 0 ELSE max_depth

\* The depth handed to both children.
child_depth(split_info, max_depth) ==
    IF FEq(split_info.score.score, F(0)) THEN 0 ELSE max_depth - 1

\* The search errors build_tree_recursive turns into a leaf; any other one panics.
leaf_error(error) ==
    \/ error.kind = "NoSplitRequired"
    \/ error.kind = "Score" /\ error.error \in {"InvalidSplit", "PerfectSplit"}

\* ------------------------------------------------------------------ state
VARIABLES
    input,      \* the arguments of fit as the caller built them: samples, target,
                \* max_depth, score_fn
    data,       \* the caller's samples and target variables, which fit borrows
                \* (&mut) and splits in place
    phase,      \* "ready", "fitting", "fitted", "predicted"
    stack,      \* the frames of build_tree_recursive, the running call last
    parts,      \* the partial results of the running find_best_split
    ret,        \* what the last finished call returned, and the data it leaves in its
                \* caller's samples and target, until the caller takes it
    result,     \* what fit returned or how it ended
    searches,   \* how many times find_best_split was called in this fit
    prev,       \* what the previous fit returned, and the data the next fit is
                \* started on
    query,      \* the rows handed to predict
    preds       \* what predict returned

vars == <<input, data, phase, stack, parts, ret, result, searches, prev, query, preds>>

\* The locals of one call of build_tree_recursive.  samples and target are the
\* caller's (&mut): split() keeps the left rows in them and returns the right rows.
\* rows_before is the length of target when the call started.
Frame(samples, target, max_depth) ==
    [samples |-> samples, target |-> target, max_depth |-> max_depth, pc |-> "enter",
     split_info |-> None, right_samples |-> None, right_tar |-> None,
     rows_before |-> Len(target), left_tree |-> None]

\* A call returns res and leaves samples and target as it last wrote them.
Return(res, f) == Some([res |-> res, samples |-> f.samples, target |-> f.target])

top == stack[Len(stack)]
running == phase = "fitting" /\ stack # <<>>
set_top(f) == [stack EXCEPT ![Len(stack)] = f]
pop == SubSeq(stack, 1, Len(stack) - 1)

\* Tree::fit: the call of build_tree_recursive on the caller's data.
Fit ==
    /\ phase = "ready"
    /\ phase' = "fitting"
    /\ stack' = <<Frame(data.samples, data.target, input.max_depth)>>
    /\ searches' = 0
    /\ UNCHANGED <<input, data, parts, ret, result, prev, query, preds>>

\* build_tree_recursive, max_depth == 0: a leaf over the call's target.
DepthExhausted ==
    /\ running /\ ret = None /\ top.pc = "enter" /\ top.max_depth = 0
    /\ ret' = Return(Ok(build_leaf(top.target, input.score_fn)), top)
    /\ stack' = pop
    /\ UNCHANGED <<input, data, phase, parts, result, searches, prev, query, preds>>

\* find_best_split starts: every (column, threshold) candidate is scored.
StartSearch ==
    /\ running /\ ret = None /\ top.pc = "enter" /\ top.max_depth > 0
    /\ parts' = df_parts(top.samples, DOMAIN top.samples, top.target, input.score_fn)
    /\ stack' = set_top([top EXCEPT !.pc = "search"])
    /\ searches' = searches + 1
    /\ UNCHANGED <<input, data, phase, ret, result, prev, query, preds>>

\* One join of the fork-join reduction.
ReduceStep ==
    /\ running /\ top.pc = "search" /\ ~reduced(parts)
    /\ \E a \in BagToSet(parts), b \in BagToSet(parts) :
          /\ joinable(parts, a, b)
          /\ parts' = join(parts, a, b)
    /\ UNCHANGED <<input, data, phase, stack, ret, result, searches, prev, query, preds>>

\* Ok(split_info): the rows are partitioned and the left child is built first.
SplitFound ==
    /\ running /\ top.pc = "search" /\ reduced(parts) /\ reduce_result(parts).ok
    /\ LET split_info == reduce_result(parts).val
           msk == row_mask(top.samples, split_info)
       IN  IF ~msk.ok
           THEN /\ ret' = Return(Err(msk.err), top)
                /\ stack' = pop
           ELSE LET dfs == HashMap_split(top.samples, msk.val,
                                         split_info.score.null_direction)
                    tars == Vec_split(top.target, msk.val,
                                      split_info.score.null_direction)
                    depth == child_depth(split_info, top.max_depth)
                IN  /\ ret' = None
                    /\ stack' = set_top([top EXCEPT !.pc = "left",
                                                   !.samples = dfs.left,
                                                   !.target = tars.left,
                                                   !.max_depth = depth,
                                                   !.split_info = Some(split_info),
                                                   !.right_samples = Some(dfs.right),
                                                   !.right_tar = Some(tars.right)])
                                \o <<Frame(dfs.left, tars.left, depth)>>
    /\ parts' = EmptyBag
    /\ UNCHANGED <<input, data, phase, result, searches, prev, query, preds>>

\* Err(NoSplitRequired) and the not-viable score errors: a leaf.
NoSplit ==
    /\ running /\ top.pc = "search" /\ reduced(parts)
    /\ ~reduce_result(parts).ok /\ leaf_error(reduce_result(parts).err)
    /\ ret' = Return(Ok(build_leaf(top.target, input.score_fn)), top)
    /\ stack' = pop
    /\ parts' = EmptyBag
    /\ UNCHANGED <<input, data, phase, result, searches, prev, query, preds>>

\* The innermost call that works on the caller's own samples and target: a call
\* lends them to its left child and builds its right child on locals.
RECURSIVE lent_to(_)
lent_to(k) == IF k < Len(stack) /\ stack[k].pc = "left" THEN lent_to(k + 1) ELSE k

\* Any other search error: panic!("Could not split data: ...").  The caller's
\* samples and target stay as the splits made so far left them.
SearchPanic ==
    /\ running /\ top.pc = "search" /\ reduced(parts)
    /\ ~reduce_result(parts).ok /\ ~leaf_error(reduce_result(parts).err)
    /\ result' = Some([kind |-> "Panic", error |-> reduce_result(parts).err])
    /\ phase' = "fitted"
    /\ stack' = <<>>
    /\ parts' = EmptyBag
    /\ data' = [samples |-> stack[lent_to(1)].samples, target |-> stack[lent_to(1)].target]
    /\ UNCHANGED <<input, ret, searches, prev, query, preds>>

\* The left child returned: `?`, then the right child is built.
LeftBuilt ==
    /\ running /\ ret # None /\ top.pc = "left"
    /\ LET r == unwrap(ret)
           f == [top EXCEPT !.samples = r.samples, !.target = r.target]
       IN  IF ~r.res.ok
           THEN /\ ret' = Return(r.res, f)
                /\ stack' = pop
           ELSE /\ ret' = None
                /\ stack' = set_top([f EXCEPT !.pc = "right",
                                             !.left_tree = Some(r.res.val)])
                            \o <<Frame(unwrap(f.right_samples), unwrap(f.right_tar),
                                       f.max_depth)>>
    /\ UNCHANGED <<input, data, phase, parts, result, searches, prev, query, preds>>

\* The right child returned: `?`, add_or_stop on both children, the node.
RightBuilt ==
    /\ running /\ ret # None /\ top.pc = "right"
    /\ LET r == unwrap(ret)
           right_tar == r.target
       IN  IF ~r.res.ok
           THEN ret' = Return(r.res, top)
           ELSE LET split_info == unwrap(top.split_info)
                    left_tree == add_or_stop(split_info, unwrap(top.left_tree),
                                             top.target, input.score_fn)
                    right_tree == add_or_stop(split_info, r.res.val,
                                              right_tar, input.score_fn)
                IN  ret' = Return(Ok(Internal(split_info, left_tree, right_tree)), top)
    /\ stack' = pop
    /\ UNCHANGED <<input, data, phase, parts, result, searches, prev, query, preds>>

\* fit returns what the outermost build_tree_recursive returned; the caller's
\* samples and target hold what that call left in them.
FitReturn ==
    /\ phase = "fitting" /\ stack = <<>> /\ ret # None
    /\ result' = Some(IF unwrap(ret).res.ok
                      THEN [kind |-> "Ok", tree |-> unwrap(ret).res.val]
                      ELSE [kind |-> "Err", error |-> unwrap(ret).res.err])
    /\ data' = [samples |-> unwrap(ret).samples, target |-> unwrap(ret).target]
    /\ ret' = None
    /\ phase' = "fitted"
    /\ UNCHANGED <<input, stack, parts, searches, prev, query, preds>>

FitStep ==
    \/ Fit
    \/ DepthExhausted
    \/ StartSearch
    \/ ReduceStep
    \/ SplitFound
    \/ NoSplit
    \/ LeftBuilt
    \/ RightBuilt
    \/ FitReturn

\* ------------------------------------------------------------------ predict
NoPredictionInLeaf == [kind |-> "NoPredictionInLeaf"]

\* Tree::predict_single_value: Ok(prediction), Err(NoPredictionInLeaf), or the
\* panic of expect() when the sample has no entry for the split's feature.
RECURSIVE predict_single_value(_, _)
\* Mutant of predict_single_value: a missing value always goes left, whatever
\* null direction the node recorded.
predict_single_value_nulls_left(self, sample) ==
    IF is_some(self.split_info) /\ is_some(self.left) /\ is_some(self.right)
    THEN LET split_info == unwrap(self.split_info)
         IN  IF split_info.name \notin DOMAIN sample
             THEN [kind |-> "Panic", feature |-> split_info.name]
             ELSE LET val == sample[split_info.name]
                  IN  IF is_some(val) /\ ~FLt(unwrap(val), split_info.value)
                      THEN predict_single_value(unwrap(self.right), sample)
                      ELSE predict_single_value(unwrap(self.left), sample)
    ELSE IF is_some(self.prediction)
         THEN [kind |-> "Ok", val |-> unwrap(self.prediction)]
         ELSE [kind |-> "Err", error |-> NoPredictionInLeaf]

predict_single_value(self, sample) ==
    IF is_some(self.split_info) /\ is_some(self.left) /\ is_some(self.right)
    THEN LET split_info == unwrap(self.split_info)
         IN  IF split_info.name \notin DOMAIN sample
             THEN [kind |-> "Panic", feature |-> split_info.name]
             ELSE LET val == sample[split_info.name]
                  IN  IF is_some(val)
                      THEN IF FLt(unwrap(val), split_info.value)
                           THEN predict_single_value(unwrap(self.left), sample)
                           ELSE predict_single_value(unwrap(self.right), sample)
                      ELSE IF split_info.score.null_direction = Left
                           THEN predict_single_value(unwrap(self.left), sample)
                           ELSE predict_single_value(unwrap(self.right), sample)
    ELSE IF is_some(self.prediction)
         THEN [kind |-> "Ok", val |-> unwrap(self.prediction)]
         ELSE [kind |-> "Err", error |-> NoPredictionInLeaf]

\* Tree::predict over the rows a DataSet yields: the predictions in row order, or
\* the first failure.
RECURSIVE predict_from(_, _, _)
predict_from(self, rws, i) ==
    IF i > Len(rws) THEN [kind |-> "Ok", val |-> <<>>]
    ELSE IF ~rws[i].ok
    THEN [kind |-> "Err", error |-> [kind |-> "DataSetRowsError", error |-> rws[i].err]]
    ELSE LET one == predict_single_value(self, rws[i].val)
         IN  IF one.kind # "Ok" THEN one
             ELSE LET rest == predict_from(self, rws, i + 1)
                  IN  IF rest.kind # "Ok" THEN rest
                      ELSE [kind |-> "Ok", val |-> <<one.val>> \o rest.val]

predict(self, samples_rows) ==
    IF ~samples_rows.ok
    THEN [kind |-> "Err", error |-> [kind |-> "DataSetRowsError", error |-> samples_rows.err]]
    ELSE predict_from(self, samples_rows.val, 1)

fitted_tree == phase \in {"fitted", "predicted"} /\ result # None /\ unwrap(result).kind = "Ok"

\* The caller builds samples and target again, as for the first fit.
Rebuild ==
    /\ phase = "fitted" /\ prev = None
    /\ data' = [samples |-> input.samples, target |-> input.target]
    /\ UNCHANGED <<input, phase, stack, parts, ret, result, searches, prev, query, preds>>

\* A second fit on the caller's samples and target as they are now; what the
\* first one returned is kept.
Refit ==
    /\ phase = "fitted" /\ prev = None
    /\ prev' = Some([result |-> result, samples |-> data.samples, target |-> data.target])
    /\ result' = None
    /\ phase' = "fitting"
    /\ stack' = <<Frame(data.samples, data.target, input.max_depth)>>
    /\ searches' = 0
    /\ UNCHANGED <<input, data, parts, ret, query, preds>>

\* ------------------------------------------------------------------ inputs
Values == {F(1), F(2), F(3), NaN}
Numbers == {F(1), F(2), F(3)}
WideValues == {F(1), F(2), NaN}
Targets(r) == [1..r -> BOOLEAN]

\* The HashMaps of well-formed columns of r rows over the given feature names.
DataSets(names, r, values) == [names -> [1..r -> values]]

FitInput(samples, target, max_depth, score_fn) ==
    [samples |-> samples, target |-> target, max_depth |-> max_depth,
     score_fn |-> score_fn]

\* The fits of every dataset of the shapes given with every target of its length.
FitInputs(shapes, values, depths, scorers) ==
    {FitInput(s, t, d, f) :
        s \in UNION {DataSets(names, r, values) : <<names, r>> \in shapes},
        t \in UNION {Targets(r) : <<names, r>> \in shapes},
        d \in depths,
        f \in scorers}

WellFormed(i) == \A c \in DOMAIN i.samples : Len(i.samples[c]) = Len(i.target)

\* A caller's scorer whose every score is NaN.
NanScore == UserScore([k \in 1..MaxRows |-> Some(NaN)])

\* The caller's scorers over the score values 0, 1 and NaN.
UserScores == {UserScore(t) : t \in [1..MaxRows -> {None, Some(F(0)), Some(F(1)), Some(NaN)}]}

BuiltIn == {Gini, Logit(F64(1, 2))}

OneColumn == {<<{"F1"}, r>> : r \in 0..MaxRows}
NoColumn == {<<{}, r>> : r \in 0..MaxRows}
TwoColumns == {<<{"F1", "F2"}, r>> : r \in 0..MaxWideRows}

\* The caller's samples and target before the first fit; the calls of the
\* functions alone have no such variables.
caller_data(i) ==
    IF {"samples", "target", "max_depth"} \subseteq DOMAIN i
    THEN [samples |-> i.samples, target |-> i.target]
    ELSE None

Start(i) ==
    /\ input = i
    /\ data = caller_data(i)
    /\ phase = "ready"
    /\ stack = <<>>
    /\ parts = EmptyBag
    /\ ret = None
    /\ result = None
    /\ searches = 0
    /\ prev = None
    /\ query = None
    /\ preds = None

\* ------------------------------------------------------------------ specifications
\* fit of one column (or none) with the built-in strategies and the NaN scorer.
Inputs == FitInputs(OneColumn \cup NoColumn, Values, 0..MaxDepth, BuiltIn \cup {NanScore})

Init == \E i \in Inputs : WellFormed(i) /\ Start(i)

Next == FitStep \/ SearchPanic

Spec == Init /\ [][Next]_vars

\* fit of two columns with the built-in strategies.
WideInputs == FitInputs(TwoColumns, WideValues, 0..MaxDepth, BuiltIn)

InitWide == \E i \in WideInputs : WellFormed(i) /\ Start(i)

NextWide == FitStep

SpecWide == InitWide /\ [][NextWide]_vars

\* Two fits, one after the other, over one and two columns: the second on the
\* data the first left behind, or on the data built again.
TwiceInputs ==
    FitInputs(OneColumn, Values, 1..MaxDepth, BuiltIn)
    \cup FitInputs(TwoColumns, WideValues, {1}, BuiltIn)

InitTwice == \E i \in TwiceInputs : WellFormed(i) /\ Start(i)

NextTwice == FitStep \/ Rebuild \/ Refit

SpecTwice == InitTwice /\ [][NextTwice]_vars

\* One split search (max_depth 1) with the built-in strategies and with the
\* caller's scorers, over one and two columns.
SearchInputs ==
    FitInputs(OneColumn, Values, {1}, BuiltIn)
    \cup FitInputs(TwoColumns, WideValues, {1}, BuiltIn)
    \cup {i \in FitInputs(OneColumn, Numbers, {1}, UserScores) :
              \A k \in 1..Len(i.target) : i.target[k]}
    \cup {i \in FitInputs(TwoColumns, {F(1), F(2)}, {1}, UserScores) :
              \A k \in 1..Len(i.target) : i.target[k]}

InitSearch == \E i \in SearchInputs : WellFormed(i) /\ Start(i)

SpecSearch == InitSearch /\ [][Next]_vars

\* fit, then predict on the fitted tree.
OptValues(values) == {None} \cup {Some(v) : v \in values}

\* What the rows() of a DataSet with the given columns yields: r rows, each the
\* present or missing value of every column.
Queries(names, r, values) ==
    {[ok |-> TRUE, val |-> [k \in 1..r |-> Ok(q[k])]] :
        q \in [1..r -> [names -> OptValues(values)]]}

PredictInputs ==
    FitInputs({<<{"F1"}, MaxRows>>}, Values, {MaxDepth}, BuiltIn)
    \cup FitInputs({<<{"F1", "F2"}, MaxWideRows>>}, WideValues, {MaxDepth}, BuiltIn)

\* Tree::predict on the tree fit returned.
Predict ==
    /\ phase = "fitted" /\ fitted_tree
    /\ \E q \in UNION {Queries(DOMAIN input.samples, r,
                               IF Cardinality(DOMAIN input.samples) = 1
                               THEN Values ELSE WideValues) :
                          r \in 0..(IF Cardinality(DOMAIN input.samples) = 1
                                    THEN MaxPredictRows ELSE MaxWidePredictRows)} :
          /\ query' = Some(q)
          /\ preds' = Some(predict(unwrap(result).tree, q))
    /\ phase' = "predicted"
    /\ UNCHANGED <<input, data, stack, parts, ret, result, searches, prev>>

InitPredict == \E i \in PredictInputs : WellFormed(i) /\ Start(i)

NextPredict == FitStep \/ Predict

SpecPredict == InitPredict /\ [][NextPredict]_vars

\* ------------------------------------------------------------------ claims
\* C1: fit with max_depth = 0 returns a single Leaf whose prediction is pred over
\* the whole target handed to fit, and find_best_split is never called.
C1_DepthZeroLeaf ==
    input.max_depth = 0 =>
        /\ searches = 0
        /\ parts = EmptyBag
        /\ phase = "fitted" =>
              result = Some([kind |-> "Ok",
                             tree |-> Leaf(pred(input.score_fn, input.target))])

C1_Witness ==
    /\ phase = "fitted" /\ input.max_depth = 0
    /\ DOMAIN input.samples # {} /\ Len(input.target) = MaxRows
    /\ \E i, j \in 1..MaxRows : input.target[i] /\ ~input.target[j]
    /\ \E i, j \in 1..MaxRows : input.samples["F1"][i] # input.samples["F1"][j]
    /\ unwrap(result).kind = "Ok" /\ is_some(unwrap(result).tree.prediction)

\* C2: every node of a tree fit returns is an internal node (split_info, left and
\* right present, no prediction) or a leaf (prediction only), never both or neither;
\* predict_single_value on it never ends in NoPredictionInLeaf.
RECURSIVE C2_nodes_ok(_)
C2_nodes_ok(tree) ==
    LET internal == /\ is_some(tree.split_info) /\ is_some(tree.left)
                    /\ is_some(tree.right) /\ ~is_some(tree.prediction)
        leaf == /\ is_some(tree.prediction) /\ ~is_some(tree.split_info)
                /\ ~is_some(tree.left) /\ ~is_some(tree.right)
    IN  /\ internal \/ leaf
        /\ ~(internal /\ leaf)
        /\ is_some(tree.left) => C2_nodes_ok(unwrap(tree.left))
        /\ is_some(tree.right) => C2_nodes_ok(unwrap(tree.right))

C2_NodeShape ==
    fitted_tree =>
        /\ C2_nodes_ok(unwrap(result).tree)
        /\ \A sample \in [DOMAIN input.samples -> OptValues(Values)] :
              predict_single_value(unwrap(result).tree, sample).kind = "Ok"

C2_Witness ==
    /\ fitted_tree
    /\ input.max_depth = MaxDepth
    /\ is_some(unwrap(result).tree.split_info)
    /\ FNe(unwrap(unwrap(result).tree.split_info).score.score, F(0))
    /\ is_some(unwrap(unwrap(result).tree.left).prediction)
    /\ is_some(unwrap(unwrap(result).tree.right).prediction)

\* The target is perfectly separable by one threshold on one feature: the rows
\* with value < threshold and the other rows are both non-empty, and each side
\* holds one class only, the two sides opposite classes.
C3_Separable ==
    \E c \in DOMAIN input.samples :
        LET col == input.samples[c]
            ts == {col[k] : k \in 1..Len(col)} \cup {FAdd(col[k], F(1)) : k \in 1..Len(col)}
        IN  \E t \in ts : \E b \in BOOLEAN :
                LET l == {k \in 1..Len(col) : FLt(col[k], t)}
                    r == (1..Len(col)) \ l
                IN  /\ l # {} /\ r # {}
                    /\ \A k \in l : input.target[k] = b
                    /\ \A k \in r : input.target[k] = ~b

\* C3: on a dataset whose target is perfectly separable by one threshold on one
\* feature, fit with Gini and max_depth >= 1 returns an internal root of score 0
\* whose two children are leaves predicting 0.0 and 1.0.
C3_PurityConvergence ==
    (phase = "fitted" /\ input.score_fn = Gini /\ input.max_depth >= 1 /\ C3_Separable) =>
        /\ result # None
        /\ unwrap(result).kind = "Ok"
        /\ LET tree == unwrap(result).tree
           IN  /\ is_some(tree.split_info) /\ is_some(tree.left) /\ is_some(tree.right)
               /\ FEq(unwrap(tree.split_info).score.score, F(0))
               /\ is_some(unwrap(tree.left).prediction)
               /\ is_some(unwrap(tree.right).prediction)
               /\ {unwrap(unwrap(tree.left).prediction),
                   unwrap(unwrap(tree.right).prediction)} = {F(0), F(1)}

\* C4: two fits of the same dataset, target, config and scoring function return
\* the same tree, whatever the scheduling and grouping of the reduction in each.
C4_Determinism ==
    (/\ phase = "fitted" /\ prev # None
     /\ unwrap(prev).samples = input.samples /\ unwrap(prev).target = input.target) =>
        result = unwrap(prev).result

\* The scores of the viable candidates of the running find_best_split: what the
\* map phase hands to the reduction for every (column, threshold).
C5_viable_scores ==
    {p.res.val.score.score :
        p \in {q \in BagToSet(df_parts(top.samples, DOMAIN top.samples, top.target,
                                       input.score_fn)) : q.res.ok}}

\* C5: find_best_split returns a candidate whose score is the minimum over all
\* viable candidates of all columns, whatever the grouping and order of the
\* reduction: once the reduction is over, no viable candidate scores lower than
\* the one returned, and a candidate is returned when the viable scores are
\* pairwise orderable.
C5_GlobalMinimum ==
    (running /\ top.pc = "search" /\ reduced(parts)) =>
        LET res == reduce_result(parts)
        IN  /\ (C5_viable_scores # {} /\ \A s \in C5_viable_scores : ~is_nan(s)) => res.ok
            /\ res.ok =>
                  /\ res.val.score.score \in C5_viable_scores
                  /\ \A s \in C5_viable_scores : ~FLt(s, res.val.score.score)

\* split(mask, null_direction) of the dataset df and the target tar conserves the
\* rows: the halves' lengths add up to the original's, and in each half every
\* column is as long as the half's target.
C6_split_conserves(df, tar, msk, null_direction) ==
    LET dfs == HashMap_split(df, msk, null_direction)
        tars == Vec_split(tar, msk, null_direction)
    IN  /\ Len(tars.left) + Len(tars.right) = Len(tar)
        /\ \A c \in DOMAIN df :
              /\ Len(dfs.left[c]) = Len(tars.left)
              /\ Len(dfs.right[c]) = Len(tars.right)
        /\ num_rows(dfs.left).val + num_rows(dfs.right).val = num_rows(df).val

\* C6: a split of a well-formed dataset and its target puts every row in exactly
\* one half: the halves' row counts add up to the original's, for the DataSet and
\* for the Target, at every recursion level of fit, and each half's columns are
\* all as long as the half's target.  Checked for every mask (missing entries
\* included) on the data of every call that has a column, and on the halves fit
\* makes.
C6_RowCount ==
    \A i \in 1..Len(stack) :
        LET f == stack[i]
        IN  /\ f.pc = "enter" =>
                  /\ \A c \in DOMAIN f.samples : Len(f.samples[c]) = Len(f.target)
                  /\ DOMAIN f.samples # {} =>
                        \A msk \in [1..Len(f.target) -> {None, Some(TRUE), Some(FALSE)}] :
                            \A null_direction \in NullDirection :
                                C6_split_conserves(f.samples, f.target, msk,
                                                   null_direction)
            /\ f.pc \in {"left", "right"} =>
                  \A c \in DOMAIN unwrap(f.right_samples) :
                      Len(unwrap(f.right_samples)[c]) = Len(unwrap(f.right_tar))
            /\ (f.pc = "left" /\ i < Len(stack)) =>
                  LET g == stack[i + 1]
                  IN  /\ g.rows_before + Len(unwrap(f.right_tar)) = f.rows_before
                      /\ g.pc = "enter" =>
                            \A c \in DOMAIN g.samples :
                                Len(g.samples[c]) + Len(unwrap(f.right_samples)[c])
                                    = f.rows_before

\* A second-level split has acted: the call on a half of the root's rows has
\* split them again into two non-empty halves.
C6_Witness ==
    /\ Len(stack) = 3
    /\ stack[2].pc = "left" /\ stack[3].pc = "enter"
    /\ stack[2].rows_before < Len(input.target)
    /\ Len(stack[3].target) >= 1
    /\ Len(unwrap(stack[2].right_tar)) >= 1

\* The leaf a row reaches: from the root, left when the row's value for the split
\* feature is < threshold, right otherwise, and by the node's recorded null
\* direction when the value is missing.
RECURSIVE C7_route(_, _)
C7_route(tree, row) ==
    IF is_some(tree.prediction) THEN unwrap(tree.prediction)
    ELSE LET split_info == unwrap(tree.split_info)
             val == row[split_info.name]
             go_left == IF val = None
                        THEN split_info.score.null_direction = Left
                        ELSE FLt(unwrap(val), split_info.value)
         IN  C7_route(unwrap(IF go_left THEN tree.left ELSE tree.right), row)

\* The tree of the second scenario: Logit with working prediction 0.5 on
\* F1=[1,2,3], target=[true,false,false], max_depth 2.
C7_scenario ==
    /\ input.samples = [c \in {"F1"} |-> <<F(1), F(2), F(3)>>]
    /\ input.target = <<TRUE, FALSE, FALSE>>
    /\ input.score_fn = Logit(F64(1, 2))

\* C7: predict returns one value per row, in row order: the prediction of the
\* leaf the row reaches going left on value < threshold, right otherwise, and by
\* the recorded null direction on a missing value (F1=[1,3] on the scenario tree
\* gives [2.0, -2.0]).
C7_PredictRouting ==
    phase = "predicted" =>
        LET tree == unwrap(result).tree
            rws == unwrap(query).val
            out == unwrap(preds)
        IN  /\ out.kind = "Ok"
            /\ Len(out.val) = Len(rws)
            /\ \A k \in 1..Len(rws) : out.val[k] = C7_route(tree, rws[k].val)
            /\ (C7_scenario /\ rws = <<Ok([c \in {"F1"} |-> Some(F(1))]),
                                       Ok([c \in {"F1"} |-> Some(F(3))])>>)
                   => out.val = <<F(2), FNeg(F(2))>>

\* predict has answered two rows on the scenario tree, the first one with a
\* missing value routed by the root's null direction, the second by its value.
C7_Witness ==
    /\ phase = "predicted" /\ C7_scenario
    /\ unwrap(query).val = <<Ok([c \in {"F1"} |-> None]),
                             Ok([c \in {"F1"} |-> Some(F(3))])>>
    /\ unwrap(unwrap(result).tree.split_info).score.null_direction = Left
    /\ unwrap(preds) = [kind |-> "Ok", val |-> <<F(2), FNeg(F(2))>>]

\* C8: fit on an empty DataSet (no column) fails with the shape error EmptyDF,
\* for every max_depth and scoring strategy; it returns no tree.
C8_EmptyDataSetFails ==
    (phase = "fitted" /\ DOMAIN input.samples = {}) =>
        result = Some([kind |-> "Err",
                       error |-> [kind |-> "DataSetRowsError", error |-> EmptyDF]])

\* C9: when the split search at a node ends in an error outside the not-viable
\* family (ScoreNotComparable), the call returns that error to its caller, up to
\* the caller of fit: the step after such a search is the Err return of the
\* call, not a panic and not a tree.
C9_SearchErrorReturned ==
    [][(/\ running /\ top.pc = "search" /\ reduced(parts)
        /\ ~reduce_result(parts).ok
        /\ ~leaf_error(reduce_result(parts).err))
           => /\ ret' = Return(Err(reduce_result(parts).err), top)
              /\ stack' = pop
              /\ result' = None]_vars

\* Two viable candidates of the running find_best_split have scores that
\* partial_cmp cannot order.
C10_incomparable_pair ==
    LET items == df_parts(top.samples, DOMAIN top.samples, top.target, input.score_fn)
    IN  \E a \in BagToSet(items), b \in BagToSet(items) :
            /\ a.res.ok /\ b.res.ok
            /\ a # b \/ CopiesIn(a, items) >= 2
            /\ SplitInfo_partial_cmp(a.res.val, b.res.val) = "None"

\* C10: when two viable candidates of a find_best_split call have scores that are
\* not orderable, the call returns ScoreNotComparable, wherever the pair stands in
\* the reduction; no other candidate is returned in its place.
C10_NotComparableSurfaces ==
    (running /\ top.pc = "search" /\ reduced(parts) /\ C10_incomparable_pair) =>
        /\ ~reduce_result(parts).ok
        /\ reduce_result(parts).err.kind = "ScoreNotComparable"

\* ------------------------------------------------------------------ the scoring functions alone
\* One call of split_score or of pred on a target, a ternary mask of the same
\* length and a strategy.
Ternary == {None, Some(TRUE), Some(FALSE)}

\* The working predictions are 0.5, 0.25, 0.1 and the f64 the literal 1e-310
\* denotes, a subnormal number: Logit::new accepts it.
Strategies ==
    LET tiny == [k |-> "fin", s |-> 0, e |-> MinExp, m |-> <<9771, 11715, 9864, 4>>]
    IN  {Gini, Logit(F64(1, 2)), Logit(F64(1, 4)), Logit(F64(1, 10)), Logit(tiny)}

ScoreInputs ==
    UNION {{[target |-> t, msk |-> m, score_fn |-> f] :
               t \in Targets(r), m \in [1..r -> Ternary], f \in Strategies} :
           r \in 0..MaxRows}

\* score_fn.split_score(&target, mask)
SplitScoreCall ==
    /\ phase = "ready"
    /\ result' = Some(split_score(input.score_fn, input.target, input.msk))
    /\ phase' = "scored"
    /\ UNCHANGED <<input, data, stack, parts, ret, searches, prev, query, preds>>

\* score_fn.pred(&target)
PredCall ==
    /\ phase = "ready"
    /\ preds' = Some(pred(input.score_fn, input.target))
    /\ phase' = "pred"
    /\ UNCHANGED <<input, data, stack, parts, ret, result, searches, prev, query>>

InitScore == \E i \in ScoreInputs : Start(i)

NextScore == SplitScoreCall \/ PredCall

SpecScore == InitScore /\ [][NextScore]_vars

\* The same calls on longer arguments, laid out class by class: the rows the mask
\* sends left, then those it sends right, then the missing ones, and in each
\* class the true labels before the false ones.  c holds the six numbers of rows.
ClassInputs ==
    LET counts == {c \in [1..6 -> 0..MaxClassRows] :
                      c[1] + c[2] + c[3] + c[4] + c[5] + c[6] <= MaxClassRows}
        repeat(v, n) == [i \in 1..n |-> v]
        target(c) ==
            repeat(TRUE, c[1]) \o repeat(FALSE, c[2]) \o repeat(TRUE, c[3])
                \o repeat(FALSE, c[4]) \o repeat(TRUE, c[5]) \o repeat(FALSE, c[6])
        msk(c) ==
            repeat(Some(TRUE), c[1] + c[2]) \o repeat(Some(FALSE), c[3] + c[4])
                \o repeat(None, c[5] + c[6])
    IN  {[target |-> target(c), msk |-> msk(c), score_fn |-> f] :
            c \in counts, f \in {Gini, Logit(F64(1, 4))}}

InitScoreRows == \E i \in ClassInputs : Start(i)

SpecScoreRows == InitScoreRows /\ [][NextScore]_vars

\* ------------------------------------------------------------------ claims on the scoring functions
\* The rows of the call's mask whose entry is m.
C11_rows(m) == {i \in 1..Len(input.msk) : input.msk[i] = m}

\* The same rows as a sequence, in row order, and all the rows of the call.
C11_class(m) ==
    LET in_class(i) == input.msk[i] = m
    IN  SelectSeq([i \in 1..Len(input.msk) |-> i], in_class)

C11_all == [i \in 1..Len(input.target) |-> i]

\* The f64 sum of a sequence of f64, from 0.0 and from the first to the last.
RECURSIVE C11_sum(_)
C11_sum(xs) ==
    IF xs = <<>> THEN F(0)
    ELSE FAdd(C11_sum(SubSeq(xs, 1, Len(xs) - 1)), xs[Len(xs)])

\* The sums G and H of grad = pred - label and hess = pred * (1 - pred) over a
\* sequence of rows.
C11_G(rws) ==
    LET p == input.score_fn.pred
    IN  C11_sum([k \in 1..Len(rws) |->
                    FSub(p, IF input.target[rws[k]] THEN F(1) ELSE F(0))])

C11_H(rws) ==
    LET p == input.score_fn.pred
    IN  C11_sum([k \in 1..Len(rws) |-> FMul(p, FSub(F(1), p))])

\* g^2 / h
C11_ratio(g, h) == FDiv(FMul(g, g), h)

C11_Q(rws) == C11_ratio(C11_G(rws), C11_H(rws))

C11_Q_left ==
    FAdd(C11_ratio(FAdd(C11_G(C11_class(Some(TRUE))), C11_G(C11_class(None))),
                   FAdd(C11_H(C11_class(Some(TRUE))), C11_H(C11_class(None)))),
         C11_Q(C11_class(Some(FALSE))))

C11_Q_right ==
    FAdd(C11_Q(C11_class(Some(TRUE))),
         C11_ratio(FAdd(C11_G(C11_class(Some(FALSE))), C11_G(C11_class(None))),
                   FAdd(C11_H(C11_class(Some(FALSE))), C11_H(C11_class(None)))))

\* The maximum of two f64, the other one when one is NaN.
C11_max(a, b) == IF is_nan(a) THEN b ELSE IF is_nan(b) THEN a ELSE IF FGe(a, b) THEN a ELSE b

\* The working prediction is a fraction C11_num / C11_den of small integers
\* (1/2, 1/4, 3/4, ...), so that the quantities can be compared as real numbers.
C11_small_fraction ==
    LET p == input.score_fn.pred IN Len(p.m) = 1 /\ p.m[1] < 16 /\ p.e \in -4..-1

C11_num == input.score_fn.pred.m[1]
C11_den == 2 ^ (0 - input.score_fn.pred.e)

\* For a set of rows, the integers C11_den * G and C11_den^2 * H, so that the real
\* number G^2 / H is C11_g^2 / C11_h.
C11_g(rws) ==
    Cardinality(rws) * C11_num - Cardinality({i \in rws : input.target[i]}) * C11_den

C11_h(rws) == Cardinality(rws) * C11_num * (C11_den - C11_num)

\* Q_left >= Q_right as real numbers, for a mask with rows on the left and on the
\* right: the two sums of fractions are compared cross-multiplied.
C11_left_attains_max ==
    LET l == C11_rows(Some(TRUE))
        r == C11_rows(Some(FALSE))
        n == C11_rows(None)
        q_left == C11_g(l \cup n) ^ 2 * C11_h(r) + C11_g(r) ^ 2 * C11_h(l \cup n)
        q_right == C11_g(l) ^ 2 * C11_h(r \cup n) + C11_g(r \cup n) ^ 2 * C11_h(l)
    IN  q_left * (C11_h(l) * C11_h(r \cup n)) >= q_right * (C11_h(l \cup n) * C11_h(r))

C12_LogitNetOfParent ==
    (/\ phase = "scored" /\ input.score_fn.kind = "Logit"
     /\ C11_rows(None) = {} /\ is_some(unwrap(result))) =>
        unwrap(unwrap(result)).score =
            FNeg(FSub(FAdd(C11_Q(C11_class(Some(TRUE))), C11_Q(C11_class(Some(FALSE)))),
                      C11_Q(C11_all)))

\* C13: pred over a non-empty target is the fraction of true labels for Gini and
\* -(sum of grad)/(sum of hess) over the whole target for Logit, through the
\* dispatch of ScoringFunction; the sums and the quotients are those of f64.
C13_Pred ==
    (phase = "pred" /\ Len(input.target) >= 1) =>
        LET nt == Cardinality({i \in 1..Len(input.target) : input.target[i]})
        IN  /\ input.score_fn.kind = "Gini" =>
                  unwrap(preds) = FDiv(F(nt), F(Len(input.target)))
            /\ input.score_fn.kind = "Logit" =>
                  unwrap(preds) = FDiv(FNeg(C11_G(C11_all)), C11_H(C11_all))

\* pred has answered for Logit with working prediction 0.1 on the target [true]:
\* the quotient of the rounded sums 0.9 and 0.09000000000000001 is just below 10.
C13_Witness ==
    /\ phase = "pred" /\ input.score_fn = Logit(F64(1, 10))
    /\ input.target = <<TRUE>>
    /\ FLt(F(9), unwrap(preds)) /\ FLt(unwrap(preds), F(10))

\* ------------------------------------------------------------------ predict on any dataset
\* Tree::predict on a DataSet whose columns need not be those the tree was
\* fitted on.
QueryNames == (SUBSET {"F1", "F2"}) \ {{}}

PredictAny ==
    /\ phase = "fitted" /\ fitted_tree
    /\ \E names \in QueryNames :
          \E q \in UNION {Queries(names, r, WideValues) : r \in 0..MaxWidePredictRows} :
              /\ query' = Some(q)
              /\ preds' = Some(predict(unwrap(result).tree, q))
    /\ phase' = "predicted"
    /\ UNCHANGED <<input, data, stack, parts, ret, result, searches, prev>>

NextPredictAny == FitStep \/ PredictAny

SpecPredictAny == InitPredict /\ [][NextPredictAny]_vars

\* The first split feature on the row's path through the tree for which the row
\* has no entry, if there is one.
RECURSIVE C14_absent(_, _)
C14_absent(tree, row) ==
    IF is_some(tree.prediction) THEN None
    ELSE LET split_info == unwrap(tree.split_info)
         IN  IF split_info.name \notin DOMAIN row THEN Some(split_info.name)
             ELSE LET val == row[split_info.name]
                      go_left == IF val = None
                                 THEN split_info.score.null_direction = Left
                                 ELSE FLt(unwrap(val), split_info.value)
                  IN  C14_absent(unwrap(IF go_left THEN tree.left ELSE tree.right), row)

\* C14: when a row handed to predict has no entry for the feature of a split
\* node on its path, predict returns the error CouldNotFindFeature: an error
\* value, not a panic and not a default.
C14_CouldNotFindFeature ==
    phase = "predicted" =>
        LET tree == unwrap(result).tree
            rws == unwrap(query).val
        IN  \A k \in 1..Len(rws) :
                (C14_absent(tree, rws[k].val) # None
                 /\ \A j \in 1..(k - 1) : C14_absent(tree, rws[j].val) = None)
                    => unwrap(preds) =
                           [kind |-> "Err",
                            error |-> [kind |-> "CouldNotFindFeature",
                                       name |-> unwrap(C14_absent(tree, rws[k].val))]]

\* The target rows the root's split routes to each child: the partition fit makes
\* of the whole target for the split the root records.
C15_halves ==
    LET split_info == unwrap(unwrap(result).tree.split_info)
    IN  Vec_split(input.target, row_mask(input.samples, split_info).val,
                  split_info.score.null_direction)

\* What the claim allows as the child of a node with the given split over the
\* given rows: a leaf predicting pred over all of these rows, or an internal
\* node of the same score.
C15_child_ok(child, split_info, rws) ==
    IF is_some(child.prediction)
    THEN child.prediction = Some(pred(input.score_fn, rws))
    ELSE FEq(unwrap(child.split_info).score.score, split_info.score.score)

\* C15: when fit assembles an internal node, a child that is internal with a
\* split score different from the node's is replaced by a Leaf predicting pred
\* over all the target rows the node's split routed to that child; other
\* children are kept.  Stated on the root fit returns: each child is a leaf over
\* all the rows routed to it, or an internal node of the root's score (with the
\* built-in strategies).
C15_CollapseOnDivergence ==
    (/\ fitted_tree /\ input.score_fn \in BuiltIn
     /\ is_some(unwrap(result).tree.split_info)) =>
        LET tree == unwrap(result).tree
            split_info == unwrap(tree.split_info)
        IN  /\ C15_child_ok(unwrap(tree.left), split_info, C15_halves.left)
            /\ C15_child_ok(unwrap(tree.right), split_info, C15_halves.right)

\* The remaining depth the i-th call on the stack was made with.
C16_called_with(i) == IF i = 1 THEN input.max_depth ELSE stack[i - 1].max_depth

\* Every internal node of score 0 has two leaves as children.
RECURSIVE C16_perfect_nodes_end(_)
C16_perfect_nodes_end(tree) ==
    is_some(tree.split_info) =>
        /\ FEq(unwrap(tree.split_info).score.score, F(0)) =>
              /\ is_some(unwrap(tree.left).prediction)
              /\ is_some(unwrap(tree.right).prediction)
        /\ C16_perfect_nodes_end(unwrap(tree.left))
        /\ C16_perfect_nodes_end(unwrap(tree.right))

\* C16: when the split chosen at a node has score exactly 0, both children are
\* built with remaining depth 0 and are leaves, whatever depth remains; for any
\* other score both are built with the remaining depth less 1.
C16_PerfectSplitRule ==
    /\ \A i \in 1..(Len(stack) - 1) :
          (stack[i].pc \in {"left", "right"} /\ stack[i + 1].pc = "enter") =>
              stack[i + 1].max_depth =
                  IF FEq(unwrap(stack[i].split_info).score.score, F(0)) THEN 0
                  ELSE C16_called_with(i) - 1
    /\ fitted_tree => C16_perfect_nodes_end(unwrap(result).tree)

\* The right child of a perfect root split is being built with depth 0 although
\* fit was called with the largest depth.
C16_Witness ==
    /\ Len(stack) = 2 /\ input.max_depth = MaxDepth
    /\ stack[1].pc = "right" /\ stack[2].pc = "enter"
    /\ FEq(unwrap(stack[1].split_info).score.score, F(0))
    /\ stack[2].max_depth = 0
    /\ Len(stack[2].target) >= 2

\* C17: at a node with remaining depth > 0 where no candidate has a viable score,
\* every partial result of the reduction, and so what find_best_split returns
\* for every grouping, is NoSplitRequired, and the next step of fit returns a
\* Leaf predicting pred over the node's target to the caller, not a failure.
C17_NoViableCandidate ==
    /\ []((running /\ top.pc = "search" /\ C5_viable_scores = {}) =>
             /\ \A p \in BagToSet(parts) : p.res = Err(NoSplitRequired)
             /\ reduced(parts) => reduce_result(parts) = Err(NoSplitRequired))
    /\ [][(running /\ top.pc = "search" /\ reduced(parts) /\ C5_viable_scores = {}) =>
             /\ ret' = Return(Ok(Leaf(pred(input.score_fn, top.target))), top)
             /\ stack' = pop
             /\ result' = result]_vars

\* The search of a second-level node over two rows of both labels has ended
\* without any viable candidate.
C17_Witness ==
    /\ running /\ Len(stack) = 2 /\ top.pc = "search" /\ top.max_depth > 0
    /\ reduced(parts) /\ C5_viable_scores = {}
    /\ Len(top.target) >= 2
    /\ \E i, j \in 1..Len(top.target) : top.target[i] /\ ~top.target[j]

\* The candidates of the only column of the running search, in row order.
C18_candidates ==
    LET name == CHOOSE c \in DOMAIN top.samples : TRUE
        col == top.samples[name]
    IN  [i \in 1..Len(col) |-> map_item(name, col, find_splits(col)[i], top.target,
                                        input.score_fn)]

\* The first candidate in iteration order among the viable ones of minimal score.
C18_first_minimal ==
    LET cs == C18_candidates
        minimal(i) == /\ cs[i].ok
                      /\ \A j \in 1..Len(cs) :
                            cs[j].ok => ~FLt(cs[j].val.score.score, cs[i].val.score.score)
        first == CHOOSE i \in 1..Len(cs) : minimal(i) /\ \A j \in 1..(i - 1) : ~minimal(j)
    IN  cs[first].val

\* C18: when several viable candidates share the minimal score, find_best_split
\* returns the first of them in the column's threshold order, for every
\* scheduling and grouping of the reduction (one column, orderable scores).
C18_FirstWinsTie ==
    (/\ running /\ top.pc = "search" /\ reduced(parts)
     /\ Cardinality(DOMAIN top.samples) = 1
     /\ C5_viable_scores # {} /\ \A s \in C5_viable_scores : ~is_nan(s)) =>
        reduce_result(parts) = Ok(C18_first_minimal)

\* ------------------------------------------------------------------ the reduction closure alone
\* The values the closure is applied to: Ok candidates of score 0, 1 or NaN, and
\* the two errors an item or the identity carries.
ReduceValues ==
    {Ok(SplitInfo("F1", v, SplitScore(s, Left))) : v \in {F(1), F(2)}, s \in {F(0), F(1), NaN}}
    \cup {Err(NoSplitRequired), Err(ScoreErr)}

ReduceInputs == [a : ReduceValues, b : ReduceValues, c : ReduceValues]

\* (a op b) op c
ReduceLeftFirst ==
    /\ phase = "ready"
    /\ result' = Some(reduce_op(reduce_op(input.a, input.b), input.c))
    /\ phase' = "left"
    /\ UNCHANGED <<input, data, stack, parts, ret, searches, prev, query, preds>>

\* a op (b op c)
ReduceRightFirst ==
    /\ phase = "left"
    /\ preds' = Some(reduce_op(input.a, reduce_op(input.b, input.c)))
    /\ phase' = "both"
    /\ UNCHANGED <<input, data, stack, parts, ret, result, searches, prev, query>>

InitReduce == \E i \in ReduceInputs : Start(i)

NextReduce == ReduceLeftFirst \/ ReduceRightFirst

SpecReduce == InitReduce /\ [][NextReduce]_vars

\* C19: the reduction closure of find_best_split is associative over Ok(candidate)
\* and Err(error) values, incomparable scores included: (a op b) op c equals
\* a op (b op c).
C19_Associative ==
    phase = "both" => result = preds

\* The impurity of a group of rows: 1 less the squared fractions of the two
\* classes, 0 for an empty group.
C20_group_impurity(rws) ==
    IF rws = {} THEN F(0)
    ELSE LET n == Cardinality(rws)
             nt == Cardinality({i \in rws : input.target[i]})
         IN  FSub(F(1), FAdd(FMul(F64(nt, n), F64(nt, n)),
                             FMul(F64(n - nt, n), F64(n - nt, n))))

\* The impurity of two groups weighted by their share of all rows.
C20_weighted(a, b) ==
    LET total == Len(input.msk)
    IN  FAdd(FMul(F64(Cardinality(a), total), C20_group_impurity(a)),
             FMul(F64(Cardinality(b), total), C20_group_impurity(b)))

\* The rows of the mask do not all have the same entry.
C20_non_degenerate == Cardinality({input.msk[i] : i \in 1..Len(input.msk)}) >= 2

\* As a real number the weighted impurity of two groups, times the number of all
\* rows, is the sum over the groups of 2 * trues * falses / size: C20_twice is the
\* numerator of a group and C20_size its denominator (1 for an empty group).
C20_twice(rws) ==
    2 * Cardinality({i \in rws : input.target[i]})
      * Cardinality({i \in rws : ~input.target[i]})

C20_size(rws) == IF rws = {} THEN 1 ELSE Cardinality(rws)

\* The weighted impurity of {left, right+missing} is smaller, as a real number,
\* than that of {left+missing, right}: the two sums are compared cross-multiplied.
C20_right_is_smaller ==
    LET l == C11_rows(Some(TRUE))
        r == C11_rows(Some(FALSE))
        n == C11_rows(None)
        w_left == C20_twice(l \cup n) * C20_size(r) + C20_twice(r) * C20_size(l \cup n)
        w_right == C20_twice(l) * C20_size(r \cup n) + C20_twice(r \cup n) * C20_size(l)
    IN  w_right * (C20_size(l \cup n) * C20_size(r))
            < w_left * (C20_size(l) * C20_size(r \cup n))

C21_GiniNoneIffDegenerate ==
    (phase = "scored" /\ input.score_fn = Gini) =>
        /\ (unwrap(result) = None) <=> ~C20_non_degenerate
        /\ C20_non_degenerate => is_some(unwrap(result))

\* Gini.split_score has answered None on a mask of missing rows only, over a
\* target of both labels.
C21_Witness ==
    /\ phase = "scored" /\ input.score_fn = Gini
    /\ Len(input.msk) = MaxRows
    /\ \A i \in 1..MaxRows : input.msk[i] = None
    /\ \E i, j \in 1..MaxRows : input.target[i] /\ ~input.target[j]
    /\ unwrap(result) = None

\* The quantities of the two assignments of the missing rows are finite.
C22_left_finite == is_finite(C11_Q_left)
C22_right_finite == is_finite(C11_Q_right)

\* C22: Logit.split_score returns None only when neither assignment of the
\* missing rows has a finite quantity; whenever Q_left or Q_right is finite it
\* returns Some score built from a finite quantity, symmetrically in left and
\* right (also when the left side is empty, missing rows exist and the right
\* side is not empty, so that only Q_left is finite).
C22_LogitNoneOnlyWhenNoFinite ==
    (phase = "scored" /\ input.score_fn.kind = "Logit") =>
        /\ (unwrap(result) = None) <=> (~C22_left_finite /\ ~C22_right_finite)
        /\ is_some(unwrap(result)) => is_finite(unwrap(unwrap(result)).score)

\* ------------------------------------------------------------------ the candidates of one column
\* Feature<T> for Vec<Option<T>>: mask
Option_mask_entry(v, split) ==
    IF is_some(v) THEN mask_entry(unwrap(v), split) ELSE None

Option_mask(values, split) ==
    [i \in 1..Len(values) |-> Option_mask_entry(values[i], split)]

\* Feature<T> for Vec<Option<T>>: find_splits
Option_find_splits(values) ==
    LET present == SelectSeq(values, LAMBDA v : is_some(v))
    IN  [i \in 1..Len(present) |-> unwrap(present[i])]

\* A column of either implementation of Feature.
VecColumn(values) == [kind |-> "Vec", values |-> values]
VecOptionColumn(values) == [kind |-> "VecOption", values |-> values]

Feature_find_splits(col) ==
    IF col.kind = "Vec" THEN find_splits(col.values) ELSE Option_find_splits(col.values)

Feature_mask(col, split) ==
    IF col.kind = "Vec" THEN mask(col.values, split) ELSE Option_mask(col.values, split)

VecColumns == UNION {{VecColumn(v) : v \in [1..r -> Values]} : r \in 0..MaxRows}

VecOptionColumns ==
    UNION {{VecOptionColumn(v) : v \in [1..r -> OptValues(Values)]} : r \in 0..MaxRows}

\* column.find_splits()
FindSplitsCall ==
    /\ phase = "ready"
    /\ result' = Some(Feature_find_splits(input))
    /\ phase' = "splits"
    /\ UNCHANGED <<input, data, stack, parts, ret, searches, prev, query, preds>>

\* column.mask(split_val) for one of the thresholds find_splits yielded.
MaskCall ==
    /\ phase = "splits"
    /\ \E i \in 1..Len(unwrap(result)) :
          /\ query' = Some(unwrap(result)[i])
          /\ preds' = Some(Feature_mask(input, unwrap(result)[i]))
    /\ phase' = "masked"
    /\ UNCHANGED <<input, data, stack, parts, ret, result, searches, prev>>

InitFeature ==
    \/ \E i \in VecColumns : Start(i)
    \/ \E i \in VecOptionColumns : Start(i)

NextFeature == FindSplitsCall \/ MaskCall

SpecFeature == InitFeature /\ [][NextFeature]_vars

\* The f64 of row i of the call's column, and whether the row's value is missing:
\* an entry None, or the NaN a column without Option holds for it.
C23_value(i) ==
    IF input.kind = "Vec" THEN input.values[i]
    ELSE IF is_some(input.values[i]) THEN unwrap(input.values[i]) ELSE NaN

C23_missing(i) == is_nan(C23_value(i))

\* The non-missing values of the column, in row order.
C23_present ==
    LET idx == SelectSeq([i \in 1..Len(input.values) |-> i], LAMBDA i : ~C23_missing(i))
    IN  [k \in 1..Len(idx) |-> C23_value(idx[k])]

\* C23: find_splits yields, in row order, one threshold per non-missing value of
\* the column (duplicates kept, missing entries skipped), and mask(threshold)
\* yields one entry per row, aligned with the column: Some(true) iff the value is
\* < threshold, Some(false) iff the value is >= threshold, None iff the value is
\* missing at that row.
C23_CandidateEnumeration ==
    /\ phase \in {"splits", "masked"} => unwrap(result) = C23_present
    /\ phase = "masked" =>
          LET out == unwrap(preds)
              threshold == unwrap(query)
          IN  /\ Len(out) = Len(input.values)
              /\ \A i \in 1..Len(out) :
                    /\ (out[i] = Some(TRUE)) <=> FLt(C23_value(i), threshold)
                    /\ (out[i] = Some(FALSE)) <=> FGe(C23_value(i), threshold)
                    /\ (out[i] = None) <=> C23_missing(i)

\* ------------------------------------------------------------------ split alone
\* One split of a dataset and of its target by the same mask and direction.
SplitValues == {F(1), F(2)}

SplitInputs ==
    UNION {{[samples |-> df, target |-> t, msk |-> m, null_direction |-> nd] :
               df \in DataSets(shape[1], shape[2], SplitValues),
               t \in Targets(shape[2]),
               m \in [1..shape[2] -> Ternary],
               nd \in NullDirection} :
           shape \in OneColumn \cup TwoColumns}

\* samples.split(mask, null_direction) and target.split(mask, null_direction)
SplitCall ==
    /\ phase = "ready"
    /\ result' = Some([samples |-> HashMap_split(input.samples, input.msk,
                                                 input.null_direction),
                       target |-> Vec_split(input.target, input.msk,
                                            input.null_direction)])
    /\ phase' = "split"
    /\ UNCHANGED <<input, data, stack, parts, ret, searches, prev, query, preds>>

\* The halves are read back: their row counts.
SplitRows ==
    /\ phase = "split"
    /\ preds' = Some([left |-> num_rows(unwrap(result).samples.left),
                      right |-> num_rows(unwrap(result).samples.right)])
    /\ phase' = "counted"
    /\ UNCHANGED <<input, data, stack, parts, ret, result, searches, prev, query>>

InitSplit == \E i \in SplitInputs : Start(i)

NextSplit == SplitCall \/ SplitRows

SpecSplit == InitSplit /\ [][NextSplit]_vars

\* The rows the claim sends left, and the others, each in increasing order.
C24_goes_left(i) ==
    \/ input.msk[i] = Some(TRUE)
    \/ input.msk[i] = None /\ input.null_direction = Left

C24_left_rows ==
    SelectSeq([i \in 1..Len(input.msk) |-> i], LAMBDA i : C24_goes_left(i))

C24_right_rows ==
    SelectSeq([i \in 1..Len(input.msk) |-> i], LAMBDA i : ~C24_goes_left(i))

\* The entries of a sequence at the given rows, in the order of the rows.
C24_pick(values, rws) == [k \in 1..Len(rws) |-> values[rws[k]]]

\* C24: split(mask, null_direction) sends row i to the left half iff mask[i] is
\* Some(true), or mask[i] is None and null_direction is Left, and to the right
\* half otherwise; the same assignment is applied to every column and to the
\* target, and each half keeps the rows in their original order.
C24_SplitAssignment ==
    (phase \in {"split", "counted"} /\ DOMAIN input.samples # {}) =>
        LET out == unwrap(result)
        IN  /\ out.target.left = C24_pick(input.target, C24_left_rows)
            /\ out.target.right = C24_pick(input.target, C24_right_rows)
            /\ DOMAIN out.samples.left = DOMAIN input.samples
            /\ DOMAIN out.samples.right = DOMAIN input.samples
            /\ \A c \in DOMAIN input.samples :
                  /\ out.samples.left[c] = C24_pick(input.samples[c], C24_left_rows)
                  /\ out.samples.right[c] = C24_pick(input.samples[c], C24_right_rows)

\* A split of two columns where a missing row went left with a present one, the
\* left half holding two rows whose values differ in a column.
C24_Witness ==
    /\ phase = "split" /\ DOMAIN input.samples = {"F1", "F2"}
    /\ input.null_direction = Left
    /\ input.msk = <<None, Some(TRUE)>>
    /\ input.samples["F1"] = <<F(2), F(1)>>
    /\ unwrap(result).samples.left["F1"] = <<F(2), F(1)>>
    /\ unwrap(result).target.left = input.target

\* ------------------------------------------------------------------ fit runs to its end
\* The largest number of internal nodes on a path from the root to a leaf.
RECURSIVE C25_height(_)
C25_height(tree) ==
    IF is_some(tree.split_info)
    THEN LET l == C25_height(unwrap(tree.left))
             r == C25_height(unwrap(tree.right))
         IN  1 + (IF l > r THEN l ELSE r)
    ELSE 0

\* Every call on the stack below the outermost was made with depth 0 or with a
\* depth strictly smaller than its caller's, and the tree fit returns has at most
\* max_depth internal nodes on any path.
C25_depth_bounded ==
    /\ Len(stack) <= input.max_depth + 1
    /\ \A i \in 2..Len(stack) :
          \/ C16_called_with(i) = 0
          \/ C16_called_with(i) < C16_called_with(i - 1)
    /\ fitted_tree => C25_height(unwrap(result).tree) <= input.max_depth

\* Until fit has returned or failed, it has a step to take.
C25_can_step ==
    \/ phase = "fitted"
    \/ phase = "ready"
    \/ phase = "fitting" /\ stack = <<>> /\ ret # None
    \/ /\ running
       /\ \/ ret = None /\ top.pc = "enter"
          \/ ret # None /\ top.pc \in {"left", "right"}
          \/ /\ top.pc = "search"
             /\ \/ reduced(parts)
                \/ \E a \in BagToSet(parts), b \in BagToSet(parts) : joinable(parts, a, b)

\* An upper bound of the steps a call with remaining depth d can take: a leaf at
\* depth 0; otherwise the search (at most one partial result per row and one per
\* column's end, joined one at a time), the split, the two children and the two
\* returns to the node.
C25_parts_bound == Cardinality(DOMAIN input.samples) * (Len(input.target) + 1)

RECURSIVE C25_work(_)
C25_work(d) == IF d = 0 THEN 1 ELSE C25_parts_bound + 4 + 2 * C25_work(d - 1)

\* The steps the call of frame f can still take, its pending children included.
C25_frame_rank(f) ==
    IF f.pc = "enter" THEN C25_work(f.max_depth)
    ELSE IF f.pc = "search"
    THEN BagCardinality(parts) + 3 + 2 * C25_work(f.max_depth - 1)
    ELSE IF f.pc = "left" THEN C25_work(f.max_depth) + 2
    ELSE 1

RECURSIVE C25_stack_rank(_)
C25_stack_rank(i) ==
    IF i = 0 THEN 0 ELSE C25_frame_rank(stack[i]) + C25_stack_rank(i - 1)

\* The steps fit can still take: a natural number.
C25_rank ==
    IF phase = "ready" THEN C25_work(input.max_depth) + 2
    ELSE IF phase = "fitting" THEN 1 + C25_stack_rank(Len(stack))
    ELSE 0

\* C25: fit terminates for every finite input and max_depth, and every tree it
\* returns has at most max_depth internal nodes on any root-to-leaf path: each
\* recursive call is made with a strictly smaller remaining depth or with depth
\* 0.  Termination is stated by a rank: every step of fit strictly lowers a
\* natural number, and fit is never without a step before it has returned or
\* failed.
C25_Termination ==
    /\ [](C25_depth_bounded /\ C25_can_step /\ C25_rank >= 0)
    /\ [][C25_rank' < C25_rank]_vars

\* fit has returned after recursing as deep as max_depth allows: a tree of
\* max_depth internal nodes on a path.
C25_Witness ==
    /\ fitted_tree /\ input.max_depth = MaxDepth
    /\ searches >= 3
    /\ C25_height(unwrap(result).tree) = MaxDepth

\* ------------------------------------------------------------------ the scores along a returned tree
\* The internal nodes of a tree.
RECURSIVE C26_internal_nodes(_)
C26_internal_nodes(tree) ==
    IF is_some(tree.split_info)
    THEN {tree} \cup C26_internal_nodes(unwrap(tree.left))
                \cup C26_internal_nodes(unwrap(tree.right))
    ELSE {}

C26_score(node) == unwrap(node.split_info).score.score

\* The children of an internal node that are internal themselves.
C26_internal_children(node) ==
    {c \in {unwrap(node.left), unwrap(node.right)} : is_some(c.split_info)}

\* C26: in every tree fit returns, an internal node that has an internal child
\* carries exactly the split score of that child; hence all internal nodes of the
\* tree carry the root's split score, and no internal node of score 0 has an
\* internal child.
C26_UniformScore ==
    fitted_tree =>
        LET tree == unwrap(result).tree
        IN  \A node \in C26_internal_nodes(tree) :
                /\ \A c \in C26_internal_children(node) :
                      /\ FEq(C26_score(c), C26_score(node))
                      /\ C26_score(c) = C26_score(node)
                /\ C26_score(node) = C26_score(tree)
                /\ FEq(C26_score(node), F(0)) => C26_internal_children(node) = {}

\* fit has returned a tree whose root has an internal child, kept because it
\* carries the root's score.
C26_Witness ==
    /\ fitted_tree
    /\ is_some(unwrap(result).tree.split_info)
    /\ C26_internal_children(unwrap(result).tree) # {}
    /\ FNe(C26_score(unwrap(result).tree), F(0))

\* The predictions of the leaves of a tree.
RECURSIVE C27_leaf_predictions(_)
C27_leaf_predictions(tree) ==
    IF is_some(tree.split_info)
    THEN C27_leaf_predictions(unwrap(tree.left))
         \cup C27_leaf_predictions(unwrap(tree.right))
    ELSE {unwrap(tree.prediction)}

\* C27: for every split fit accepts on a well-formed dataset with Gini or Logit
\* (pred in (0,1)), both halves made by split with the recorded null direction
\* hold at least one row; so no leaf below an internal node is computed over an
\* empty target, and no child leaf prediction is the undefined 0/0.
C27_HalvesNotEmpty ==
    input.score_fn \in BuiltIn =>
        /\ \A i \in 1..Len(stack) :
              stack[i].pc \in {"left", "right"} =>
                  /\ Len(unwrap(stack[i].right_tar)) >= 1
                  /\ (stack[i].pc = "left" /\ i < Len(stack)
                      /\ stack[i + 1].pc = "enter") => Len(stack[i + 1].target) >= 1
        /\ (fitted_tree /\ is_some(unwrap(result).tree.split_info)) =>
              \A p \in C27_leaf_predictions(unwrap(result).tree) : ~is_nan(p)

\* The split the finished search of the running call returns.
C28_chosen == reduce_result(parts).val

\* The side predict sends a row of the call's dataset to at a node of the chosen
\* split.
C28_predict_goes_left(row) ==
    predict_single_value(Internal(C28_chosen, Leaf(F(1)), Leaf(F(0))), row).val = F(1)

\* C28: the row partition fit uses for the chosen split (the mask it recomputes
\* from rows() as value < split_info.value) is, row for row, the ternary mask
\* Feature::mask(threshold) that find_best_split scored for that split, rows
\* whose value is missing or not comparable with the threshold (NaN) included;
\* predict applies the same rule to these rows (with the built-in strategies).
C28_PartitionIsScoredMask ==
    (/\ input.score_fn \in BuiltIn
     /\ running /\ top.pc = "search" /\ reduced(parts) /\ reduce_result(parts).ok) =>
        LET scored == mask(top.samples[C28_chosen.name], C28_chosen.value)
            used == row_mask(top.samples, C28_chosen).val
            rws == rows(top.samples, CHOOSE order \in iter_orders(DOMAIN top.samples) : TRUE).val
        IN  /\ used = scored
            /\ \A i \in 1..Len(rws) :
                  C28_predict_goes_left(rws[i].val)
                      = should_go_left(scored[i], C28_chosen.score.null_direction)

\* The labels of a target are all identical.
C29_pure(target) == \A i, j \in 1..Len(target) : target[i] = target[j]

\* C29: with the impurity strategy a node whose target labels are all identical
\* is not split: its search returns no candidate and fit returns a Leaf for it,
\* even when depth remains and a feature has two or more distinct values.
C29_PureNodeIsLeaf ==
    input.score_fn = Gini =>
        /\ (running /\ top.pc = "search" /\ reduced(parts) /\ C29_pure(top.target)) =>
              ~reduce_result(parts).ok
        /\ (phase = "fitted" /\ C29_pure(input.target) /\ DOMAIN input.samples # {}) =>
              result = Some([kind |-> "Ok", tree |-> build_leaf(input.target, Gini)])

\* The candidates split_score makes of the call's target with every mask of its
\* length, as find_best_split would hand them to the reduction.
C30_candidates ==
    {SplitInfo("F1", F(1), unwrap(split_score(input.score_fn, input.target, m))) :
        m \in {m \in [1..Len(input.target) -> Ternary] :
                  is_some(split_score(input.score_fn, input.target, m))}}

\* C30: neither built-in strategy returns Some score that is NaN: a Gini score
\* lies in [0, 1/2] and a Logit score (pred in (0,1)) is finite and <= 0, for
\* every target and mask; so any two candidate scores are orderable, and the
\* comparison and the reduction closure of find_best_split never produce
\* ScoreNotComparable on them; the comparison inside the impurity does not panic.
C30_ScoresOrderable ==
    (phase = "scored" /\ is_some(unwrap(result))) =>
        LET out == unwrap(unwrap(result))
            this == SplitInfo("F1", F(1), out)
        IN  /\ "panic" \notin DOMAIN out
            /\ ~is_nan(out.score)
            /\ input.score_fn.kind = "Gini" =>
                  FGe(out.score, F(0)) /\ FGe(F64(1, 2), out.score)
            /\ input.score_fn.kind = "Logit" =>
                  is_finite(out.score) /\ FGe(F(0), out.score)
            /\ \A other \in C30_candidates :
                  /\ SplitInfo_partial_cmp(this, other) # "None"
                  /\ min_sp(this, other).ok
                  /\ reduce_op(Ok(this), Ok(other)).ok

====
